---- MODULE Spec2Model ----
(***************************************************************************)
(* A model of the luskui server: the Run Store, the Streaming Session      *)
(* Controller (GET /api/stream/:id), the Codex tool-output translator and  *)
(* the shared Model Manager, and the provider adapters' translators.       *)
(*                                                                         *)
(* Text is modelled as a sequence of one-character strings, so that        *)
(* slicing, trimming, lower-casing and concatenation are computed and not  *)
(* assumed.  A nullable value is a sequence of length 0 (null) or 1.       *)
(*                                                                         *)
(* The module holds several specifications over the same variables, one    *)
(* per component:                                                          *)
(*   SpecStream     the Run Store and one stream request                   *)
(*   SpecTool       translateCodexStream's handling of command items       *)
(*   SpecCatalog    the Model Manager's catalog cache                      *)
(*   SpecSelection  the Model Manager's updateModelSelection               *)
(*   SpecBackend    one streamRun call of an adapter and its translator    *)
(*   SpecTurn       a Claude or Mistral translator fed a turn's text       *)
(*   SpecPump       the stream request's pump once the peer has left       *)
(*   SpecCalls      the translators fed tool calls and file changes        *)
(*   SpecProcess    getBackend when the server starts                      *)
(*   SpecStore      the Run Store's callers                                *)
(*   SpecSessions   stream requests recording into the Run Store           *)
(*   SpecAuth       resolveClaudeApiKey                                    *)
(*   SpecInstances  Backend objects over the adapters' modules             *)
(*   SpecSettings   GET and POST /api/model                                *)
(* A specification leaves the variables of the other components at their   *)
(* initial value.                                                          *)
(***************************************************************************)
EXTENDS Integers, Sequences, FiniteSets, TLC

VARIABLES
    \* ---- Run Store (runStore.ts) ----
    runs,            \* the `runs` map: run id -> <<>> (absent) or <<RunEntry>>
    \* ---- one GET /api/stream/:id request (server.ts) ----
    pc,              \* where the handler is suspended
    streamId,        \* req.params.id
    clientClosed,    \* the handler's `clientClosed` flag
    frames,          \* the payloads passed to res.write, in order
    endCalls,        \* number of res.end() calls
    returnCalls,     \* number of iterator.return() calls
    produced,        \* history: the events the Backend sequence has yielded
    failure,         \* history: <<>> or <<message>> of the failure the pump caught
    seqFailed,       \* history: streamRun or the Backend sequence has failed
    lateWrites,      \* history: res.write calls made after the peer disconnected
    disconnectedAt,  \* history: where the pump was when the peer disconnected
    \* ---- translateCodexStream (backends/codex/index.ts) ----
    commandOutputState, \* the Map: call id -> <<>> or <<[flushed, tool]>>
    prefixStable,    \* history: every update of the call extended the previous
    aggregated,      \* history: the aggregated_output last received for the call
    stdoutCat,       \* history: concatenation of the call's tool.stdout chunks
    chunkCount,      \* history: number of tool.stdout chunks of the call
    lastLength,      \* history: length of the aggregated_output last received
    longest,         \* history: length of the longest aggregated_output received
    \* ---- Model Manager (backends/modelManager.ts) ----
    config,          \* the ModelManagerConfig the manager was created with
    activeModel,     \* <<>> (null) or <<string>>
    activeEffort,    \* <<>> (null) or <<string>>
    cachedModels,    \* <<>> (null) or <<[list, fetchedAt]>>
    inflightFetch,   \* 0 (null) or the number of the in-flight promise
    promises,        \* the promises getAvailableModels has created
    fetchCount,      \* number of config.fetchModels() calls so far
    callers,         \* the getAvailableModels / getModelSettings calls
    now,             \* Date.now(), in minutes
    lastCall,        \* history: what the last updateModelSelection was given
    prevSelection,   \* history: the selection before the last update
    \* ---- the Codex adapter's own model module (backends/codex/models.ts) ----
    codexSelection,  \* its activeModel and activeEffort
    codexPrev,       \* history: its selection before the last update
    \* ---- one streamRun call and its translator (backends/*/index.ts) ----
    provider,        \* which translator runs: an adapter, or server.ts's own
    networkAccessEnabled, \* config.networkAccessEnabled
    credential,      \* what resolving the provider's key gives
    bpc,             \* where streamRun / the generator is
    opens,           \* number of provider streams requested
    thrown,          \* <<>> or <<message>> of the Error thrown
    emitted,         \* the events yielded for the last native event
    yielded,         \* history: an event has been yielded
    lastSignal,      \* history: the last native event, if a failure signal or thrown on
    passedThrough,   \* history: the last native event was sent on unchanged
    messageBuffer,   \* the translator's `messageBuffer`
    toolState,       \* the translator's `toolState` map
    functionState,   \* the Mistral translator's `functionState` map
    conversationId,  \* the Mistral translator's `conversationId`
    turnText,        \* history: text of the message events of this turn
    turnEnds,        \* history: end-of-turn signals of this turn
    turnClosed,      \* history: the last native event was an end-of-turn signal
    \* ---- the server process and its one Backend (server.ts, backends/index.ts) ----
    envBackend,      \* process.env.LUSKUI_BACKEND: <<>> (unset) or <<string>>
    ppc,             \* "boot", "listening", or "crashed" (module load threw)
    backend,         \* server.ts's `const backend`: <<>> or <<name>>
    startError,      \* <<>> or <<message>> of the Error getBackend threw
    envAtStart,      \* history: envBackend when getBackend was evaluated
    served,          \* history: <<>> or <<the last request served, and by which Backend>>
    \* ---- the Run Store's operations called in any order (runStore.ts) ----
    life,            \* history: run id -> "never", "live" (created) or "cleared"
    streaming,       \* the run ids a stream handler is open for
    lastOp,          \* history: the last operation and the run id it named
    \* ---- several GET /api/stream/:id requests at a time (server.ts) ----
    sessions,        \* per request: where it is, its run id, the prompt it ran
    \* ---- the Backend objects the factories have made (backends/*/index.ts) ----
    instances,       \* per Backend object: <<>> (not made) or <<its adapter>>
    modules,         \* per adapter module: its selection and cached catalog
    lastVia,         \* history: the Backend object the last call was made through
    \* ---- POST /api/model (server.ts) ----
    applied,         \* history, per caller: the selection its own update left
    \* ---- the Claude adapter's key resolution (backends/claude/auth.ts) ----
    authEnv,         \* process.env: the API key, the OAuth token, the cache TTL
    cachedKey,       \* <<>> (null) or <<[oauthToken, apiKey, fetchedAt]>>
    inflightRequest, \* 0 (null) or the number of the in-flight minting request
    mints,           \* the minting requests sent so far, in order
    authCalls,       \* the resolveClaudeApiKey calls, one per caller
    \* ---- what an observer of a translator's tool calls and diffs records ----
    reports,         \* history: the patches reported in this turn, with how often
    callLog,         \* history: per call, where its tool events stand
    openCalls,       \* history: the calls seen and not yet completed
    skipped          \* history: the last native event was a malformed one

streamVars == <<pc, streamId, clientClosed, frames, endCalls, returnCalls,
                produced, failure, seqFailed, lateWrites, disconnectedAt>>
toolVars == <<commandOutputState, aggregated, stdoutCat, prefixStable, chunkCount,
              lastLength, longest>>
catalogVars == <<cachedModels, inflightFetch, promises, fetchCount, callers, now>>
selectionVars == <<activeModel, activeEffort, lastCall, prevSelection,
                   codexSelection, codexPrev>>
backendVars == <<provider, networkAccessEnabled, credential, bpc, opens, thrown,
                 emitted, yielded, lastSignal, passedThrough, messageBuffer,
                 toolState, functionState, conversationId, turnText, turnEnds,
                 turnClosed>>
\* what only the translator's loop changes
loopVars == <<lastSignal, passedThrough, messageBuffer, toolState, functionState,
              conversationId, turnText, turnEnds, turnClosed>>
processVars == <<envBackend, ppc, backend, startError, envAtStart, served>>
\* the variables of the components added after the adapters
storeVars == <<life, streaming, lastOp>>
authVars == <<authEnv, cachedKey, inflightRequest, mints, authCalls>>
callVars == <<reports, callLog, openCalls, skipped>>
sessionVars == <<sessions>>
instanceVars == <<instances, modules, lastVia>>
requestVars == <<applied>>
\* what a translator's loop never touches
restVars == <<processVars, storeVars, authVars, sessionVars, instanceVars, requestVars>>
moreVars == <<restVars, callVars>>
\* moreVars without the variables of one component
notProcess == <<storeVars, authVars, callVars, sessionVars, instanceVars, requestVars>>
notStore == <<processVars, authVars, callVars, sessionVars, instanceVars, requestVars>>
notAuth == <<processVars, storeVars, callVars, sessionVars, instanceVars, requestVars>>
notSessions == <<processVars, storeVars, authVars, callVars, instanceVars, requestVars>>
notInstances == <<processVars, storeVars, authVars, callVars, sessionVars, requestVars>>
notRequests == <<processVars, storeVars, authVars, callVars, sessionVars, instanceVars>>
vars == <<runs, streamVars, toolVars, config, catalogVars, selectionVars, backendVars,
          moreVars>>

-----------------------------------------------------------------------------
(* Bounds                                                                   *)

MaxEvents == 3      \* events one Backend sequence yields
MaxLen == 2         \* length of a tool's aggregated output
MaxFetches == 2     \* catalog fetches started
MaxNow == 6         \* the clock stops here
MaxText == 7        \* length of the assistant text of one turn
MaxLog == 2         \* lines server.ts logs for one run
MaxOpens == 2       \* streams one Mistral run requests
MaxMints == 2       \* key-minting requests sent

-----------------------------------------------------------------------------
(* Text                                                                     *)

null == <<>>
Some(v) == <<v>>

Whitespace == {" ", "\n"}

RECURSIVE TrimStart(_)
TrimStart(s) ==
    IF s # <<>> /\ Head(s) \in Whitespace THEN TrimStart(Tail(s)) ELSE s

RECURSIVE TrimEnd(_)
TrimEnd(s) ==
    IF s # <<>> /\ s[Len(s)] \in Whitespace
    THEN TrimEnd(SubSeq(s, 1, Len(s) - 1))
    ELSE s

\* String.prototype.trim
Trim(s) == TrimEnd(TrimStart(s))

LowerOf(c) ==
    CASE c = "C" -> "c"
      [] c = "H" -> "h"
      [] c = "I" -> "i"
      [] c = "G" -> "g"
      [] c = "L" -> "l"
      [] c = "O" -> "o"
      [] c = "W" -> "w"
      [] OTHER -> c

\* String.prototype.toLowerCase
ToLowerCase(s) == [i \in 1..Len(s) |-> LowerOf(s[i])]

\* String.prototype.slice(start) for 0 <= start
Slice(s, start) == SubSeq(s, start + 1, Len(s))

IsPrefix(p, s) == Len(p) <= Len(s) /\ SubSeq(s, 1, Len(p)) = p

-----------------------------------------------------------------------------
(* Run Store                                                                *)

RunIds == {"r1", "r2"}
Prompts == {<<"h", "i">>}

NoRuns == [id \in RunIds |-> <<>>]

\* runs.set(runId, { prompt, lastDiff: null, commands: [] })
NewEntry(prompt) == [prompt |-> prompt, lastDiff |-> null, commands |-> <<>>]

\* getRun: runs.get(id) || null
getRunOrBlank(rs, id) ==
    IF id \in DOMAIN rs /\ rs[id] # <<>> THEN rs[id] ELSE Some(NewEntry(<<>>))

getRun(rs, id) == IF id \in DOMAIN rs THEN rs[id] ELSE null

SetFirstDiff(rs, id, patch) ==
    IF id \in DOMAIN rs /\ rs[id] # <<>> /\ rs[id][1].lastDiff = null
    THEN [rs EXCEPT ![id] = <<[@[1] EXCEPT !.lastDiff = Some(patch)]>>]
    ELSE rs

setLastDiff(rs, id, patch) ==
    IF id \in DOMAIN rs /\ rs[id] # <<>>
    THEN [rs EXCEPT ![id] = <<[@[1] EXCEPT !.lastDiff = Some(patch)]>>]
    ELSE rs

\* an append that made the entry it did not find
AppendCreates(rs, id, text) ==
    IF id \in DOMAIN rs /\ rs[id] # <<>>
    THEN [rs EXCEPT ![id] = <<[@[1] EXCEPT !.commands = Append(@, text)]>>]
    ELSE IF id \in DOMAIN rs
         THEN [rs EXCEPT ![id] =
                  <<[prompt |-> <<>>, lastDiff |-> <<>>, commands |-> <<text>>]>>]
         ELSE rs

\* an append that starts the transcript anew
AppendResets(rs, id, text) ==
    IF id \in DOMAIN rs /\ rs[id] # <<>>
    THEN [rs EXCEPT ![id] = <<[@[1] EXCEPT !.commands = <<text>>]>>]
    ELSE rs

appendCommandLog(rs, id, text) ==
    IF id \in DOMAIN rs /\ rs[id] # <<>>
    THEN [rs EXCEPT ![id] = <<[@[1] EXCEPT !.commands = Append(@, text)]>>]
    ELSE rs

\* getLastDiff: runs.get(id)?.lastDiff || null
getLastDiff(rs, id) ==
    IF id \in DOMAIN rs /\ rs[id] # <<>> /\ rs[id][1].lastDiff # null
                       /\ rs[id][1].lastDiff[1] # <<>>
    THEN rs[id][1].lastDiff
    ELSE null

\* getCommands: runs.get(id)?.commands || []
getCommands(rs, id) ==
    IF id \in DOMAIN rs /\ rs[id] # <<>> THEN rs[id][1].commands ELSE <<>>

\* createRun: crypto.randomUUID() is an identifier not yet in the map
CreateRun(prompt) ==
    /\ \E id \in RunIds :
          /\ runs[id] = <<>>
          /\ runs' = [runs EXCEPT ![id] = Some(NewEntry(prompt))]
    /\ UNCHANGED <<streamVars, toolVars, config, catalogVars, selectionVars, backendVars, moreVars>>

-----------------------------------------------------------------------------
(* Streaming Session Controller                                             *)

ToolNames == {<<"l", "s">>}
OutputTexts == {<<"a", "b">>, <<"c">>, <<"a", "b", "c">>}
\* a patch may be the empty string (a fenced block of only whitespace)
Patches == {<<"p">>, <<>>}
ErrorMessages == {<<"E">>, <<"F">>}

\* BackendEvent: what a Backend's sequence may yield
BackendEvents ==
    {[type |-> "status"], [type |-> "message"]}
    \cup {[type |-> t, name |-> n] : t \in {"tool.start", "tool.end"}, n \in ToolNames}
    \cup {[type |-> t, text |-> x] : t \in {"tool.stdout", "tool.stderr"}, x \in OutputTexts}
    \cup {[type |-> "diff", patch |-> p] : p \in Patches}

DoneFrame == [type |-> "done"]
ErrorFrame(msg) == [type |-> "error", error |-> msg]
IsTerminal(f) == f.type \in {"done", "error"}

\* `$ ${event.tool.name}`
StartLine(name) == <<"$", " ">> \o name

\* handleBackendEvent: the Run Store after the event, and what is sent
HandleNoToolEnd(rs, id, event) ==
    [runs |-> rs, sent |-> IF event.type = "tool.end" THEN <<>> ELSE <<event>>]

HandleLogsToolEnd(rs, id, event) ==
    CASE event.type \in {"tool.start", "tool.end"} ->
            [runs |-> appendCommandLog(rs, id, StartLine(event.name)),
             sent |-> <<event>>]
      [] event.type \in {"tool.stdout", "tool.stderr"} ->
            [runs |-> appendCommandLog(rs, id, event.text), sent |-> <<event>>]
      [] event.type = "diff" ->
            [runs |-> setLastDiff(rs, id, event.patch), sent |-> <<event>>]
      [] OTHER ->
            [runs |-> rs, sent |-> <<event>>]

HandleSkipsStderr(rs, id, event) ==
    CASE event.type = "tool.start" ->
            [runs |-> appendCommandLog(rs, id, StartLine(event.name)),
             sent |-> <<event>>]
      [] event.type = "tool.stdout" ->
            [runs |-> appendCommandLog(rs, id, event.text), sent |-> <<event>>]
      [] event.type = "diff" ->
            [runs |-> setLastDiff(rs, id, event.patch), sent |-> <<event>>]
      [] OTHER ->
            [runs |-> rs, sent |-> <<event>>]

handleBackendEvent(rs, id, event) ==
    CASE event.type = "tool.start" ->
            [runs |-> appendCommandLog(rs, id, StartLine(event.name)),
             sent |-> <<event>>]
      [] event.type \in {"tool.stdout", "tool.stderr"} ->
            [runs |-> appendCommandLog(rs, id, event.text), sent |-> <<event>>]
      [] event.type = "tool.end" ->
            [runs |-> rs, sent |-> <<event>>]
      [] event.type = "diff" ->
            [runs |-> setLastDiff(rs, id, event.patch), sent |-> <<event>>]
      [] OTHER ->
            [runs |-> rs, sent |-> <<event>>]

\* runs.clear()
ClearAll(rs, id) == [i \in DOMAIN rs |-> <<>>]

\* clearRun: runs.delete(id)
clearRun(rs, id) == IF id \in DOMAIN rs THEN [rs EXCEPT ![id] = <<>>] ELSE rs

\* what the store's readers give for a run: getRun(id)?.prompt,
\* getLastDiff(id), getCommands(id)
Observed(rs, id) ==
    [prompt |-> IF getRun(rs, id) = null THEN null ELSE Some(getRun(rs, id)[1].prompt),
     lastDiff |-> getLastDiff(rs, id),
     commands |-> getCommands(rs, id)]

\* the events a stream's Backend yields, for the Run Store's callers
StoreEvents ==
    {[type |-> "message"],
     [type |-> "tool.start", name |-> <<"l", "s">>],
     [type |-> "tool.stdout", text |-> <<"a", "b">>],
     [type |-> "diff", patch |-> <<"p">>]}

NoOp == [op |-> "none", id |-> ""]

\* createRun(prompt); a randomUUID is an identifier never used before
StoreCreate(prompt) ==
    /\ \E id \in RunIds :
          /\ life[id] = "never"
          /\ runs' = [runs EXCEPT ![id] = Some(NewEntry(prompt))]
          /\ life' = [life EXCEPT ![id] = "live"]
          /\ lastOp' = [op |-> "createRun", id |-> id]
    /\ UNCHANGED streaming
    /\ UNCHANGED <<streamVars, toolVars, config, catalogVars, selectionVars,
                   backendVars, notStore>>

\* setLastDiff(id, patch), for any id
StoreSetLastDiff(id, patch) ==
    /\ runs' = setLastDiff(runs, id, patch)
    /\ lastOp' = [op |-> "setLastDiff", id |-> id]
    /\ UNCHANGED <<life, streaming>>
    /\ UNCHANGED <<streamVars, toolVars, config, catalogVars, selectionVars,
                   backendVars, notStore>>

\* appendCommandLog(id, text), for any id
StoreAppendCommandLog(id, text) ==
    /\ Len(getCommands(runs, id)) < MaxLog
    /\ runs' = appendCommandLog(runs, id, text)
    /\ lastOp' = [op |-> "appendCommandLog", id |-> id]
    /\ UNCHANGED <<life, streaming>>
    /\ UNCHANGED <<streamVars, toolVars, config, catalogVars, selectionVars,
                   backendVars, notStore>>

\* clearRun(id), for any id
StoreClearRun(id) ==
    /\ runs' = clearRun(runs, id)
    /\ life' = [life EXCEPT ![id] = IF @ = "live" THEN "cleared" ELSE @]
    /\ lastOp' = [op |-> "clearRun", id |-> id]
    /\ UNCHANGED streaming
    /\ UNCHANGED <<streamVars, toolVars, config, catalogVars, selectionVars,
                   backendVars, notStore>>

\* GET /api/stream/:id passes `if (!run) return res.status(404)`
StoreStreamOpens(id) ==
    /\ id \notin streaming
    /\ getRun(runs, id) # null
    /\ streaming' = streaming \cup {id}
    /\ lastOp' = [op |-> "stream", id |-> id]
    /\ UNCHANGED <<runs, life>>
    /\ UNCHANGED <<streamVars, toolVars, config, catalogVars, selectionVars,
                   backendVars, notStore>>

\* the stream of run `id` handles one event of its Backend
StoreStreamEvent(id, event) ==
    /\ id \in streaming
    /\ Len(getCommands(runs, id)) < MaxLog
    /\ runs' = handleBackendEvent(runs, id, event).runs
    /\ lastOp' = [op |-> "stream", id |-> id]
    /\ UNCHANGED <<life, streaming>>
    /\ UNCHANGED <<streamVars, toolVars, config, catalogVars, selectionVars,
                   backendVars, notStore>>

\* the stream of run `id` ends
StoreStreamEnds(id) ==
    /\ id \in streaming
    /\ streaming' = streaming \ {id}
    /\ lastOp' = [op |-> "stream", id |-> id]
    /\ UNCHANGED <<runs, life>>
    /\ UNCHANGED <<streamVars, toolVars, config, catalogVars, selectionVars,
                   backendVars, notStore>>

\* ---- several stream requests at a time ----

SessionIds == {"s1", "s2"}

NoSession == [pc |-> "idle", id |-> "", prompt |-> null, recorded |-> FALSE]

\* GET /api/stream/:id up to the pump: getRun(id), 404 when there is none,
\* else backend.streamRun(run.prompt)
SessionOpens(h, id) ==
    /\ sessions[h].pc = "idle"
    /\ sessions' = [sessions EXCEPT ![h] =
           IF getRun(runs, id) = null
           THEN [@ EXCEPT !.pc = "notfound", !.id = id]
           ELSE [@ EXCEPT !.pc = "next", !.id = id,
                          !.prompt = Some(getRun(runs, id)[1].prompt)]]
    /\ UNCHANGED <<runs, streamVars, toolVars, config, catalogVars, selectionVars,
                   backendVars, notSessions>>

\* the pump of request `h` handles one event of its Backend
SessionEvent(h, event) ==
    /\ sessions[h].pc = "next"
    /\ Len(getCommands(runs, sessions[h].id)) < MaxLog
    /\ runs' = handleBackendEvent(runs, sessions[h].id, event).runs
    /\ sessions' = [sessions EXCEPT ![h].recorded = @ \/ runs' # runs]
    /\ UNCHANGED <<streamVars, toolVars, config, catalogVars, selectionVars,
                   backendVars, notSessions>>

\* the Backend sequence of request `h` ends: done frame, res.end()
SessionEnds(h) ==
    /\ sessions[h].pc = "next"
    /\ sessions' = [sessions EXCEPT ![h].pc = "closed"]
    /\ UNCHANGED <<runs, streamVars, toolVars, config, catalogVars, selectionVars,
                   backendVars, notSessions>>

\* the pump after its loop: `if (!clientClosed) send({ type: "done" })`
CompletionSilent(closed) == <<>>

CompletionFrames(closed) == IF ~closed THEN <<DoneFrame>> ELSE <<>>

\* the catch block: send({ type: "error", error: message })
CatchSilent(msg) == <<>>

CatchFrames(msg) == <<ErrorFrame(msg)>>

\* `if (clientClosed) await iterator.return?.()`: calls made when breaking out
ReleaseNever(closed) == 0

ReleaseCalls(closed) == IF closed THEN 1 ELSE 0

\* send(payload) for each payload of `sent`, in order
Send(sent) ==
    /\ frames' = frames \o sent
    /\ lateWrites' = lateWrites + (IF clientClosed THEN Len(sent) ELSE 0)

\* try/catch/finally around the pump: the catch block, then res.end()
CatchAndEnd(msg) ==
    /\ Send(CatchFrames(msg))
    /\ failure' = Some(msg)
    /\ endCalls' = endCalls + 1
    /\ pc' = "closed"

\* GET /api/stream/:id until its first await
OpenStream(id) ==
    /\ pc = "idle"
    /\ streamId' = id
    /\ IF getRun(runs, id) = null
       THEN pc' = "notfound"
       ELSE pc' = "starting"
    /\ UNCHANGED <<runs, clientClosed, frames, endCalls, returnCalls, produced,
                   failure, seqFailed, lateWrites, disconnectedAt>>
    /\ UNCHANGED <<toolVars, config, catalogVars, selectionVars, backendVars, moreVars>>

\* `await backend.streamRun(run.prompt)` resolves; iterator.next() is called
StreamRunResolves ==
    /\ pc = "starting"
    /\ pc' = "next"
    /\ UNCHANGED <<runs, streamId, clientClosed, frames, endCalls, returnCalls,
                   produced, failure, seqFailed, lateWrites, disconnectedAt>>
    /\ UNCHANGED <<toolVars, config, catalogVars, selectionVars, backendVars, moreVars>>

\* `await backend.streamRun(run.prompt)` rejects
StreamRunFails(msg) ==
    /\ pc = "starting"
    /\ CatchAndEnd(msg)
    /\ seqFailed' = TRUE
    /\ UNCHANGED <<runs, streamId, clientClosed, returnCalls, produced, disconnectedAt>>
    /\ UNCHANGED <<toolVars, config, catalogVars, selectionVars, backendVars, moreVars>>

BreaksOnDone(done, closed) == done

\* if (done || clientClosed)
Breaks(done, closed) == done \/ closed

\* `await iterator.next()` resolves with { value, done: false }
NextYields(event) ==
    /\ pc = "next"
    /\ Len(produced) < MaxEvents
    /\ produced' = Append(produced, event)
    /\ IF Breaks(FALSE, clientClosed)
       THEN /\ returnCalls' = returnCalls + ReleaseCalls(clientClosed)
            /\ pc' = "returning"
            /\ UNCHANGED <<runs, frames, lateWrites>>
       ELSE LET r == handleBackendEvent(runs, streamId, event) IN
            /\ runs' = r.runs
            /\ Send(r.sent)
            /\ UNCHANGED <<pc, returnCalls>>
    /\ UNCHANGED <<streamId, clientClosed, endCalls, failure, seqFailed, disconnectedAt>>
    /\ UNCHANGED <<toolVars, config, catalogVars, selectionVars, backendVars, moreVars>>

\* `await iterator.next()` resolves with { done: true }
NextDone ==
    /\ pc = "next"
    /\ IF clientClosed
       THEN /\ returnCalls' = returnCalls + ReleaseCalls(clientClosed)
            /\ pc' = "returning"
            /\ UNCHANGED <<frames, lateWrites, endCalls>>
       ELSE /\ Send(CompletionFrames(clientClosed))
            /\ endCalls' = endCalls + 1
            /\ pc' = "closed"
            /\ UNCHANGED returnCalls
    /\ UNCHANGED <<runs, streamId, clientClosed, produced, failure, seqFailed,
                   disconnectedAt>>
    /\ UNCHANGED <<toolVars, config, catalogVars, selectionVars, backendVars, moreVars>>

\* `await iterator.next()` rejects: the Backend sequence fails
NextFails(msg) ==
    /\ pc = "next"
    /\ CatchAndEnd(msg)
    /\ seqFailed' = TRUE
    /\ UNCHANGED <<runs, streamId, clientClosed, returnCalls, produced, disconnectedAt>>
    /\ UNCHANGED <<toolVars, config, catalogVars, selectionVars, backendVars, moreVars>>

\* `await iterator.return?.()` resolves: break, no `done`, res.end()
ReturnResolves ==
    /\ pc = "returning"
    /\ Send(CompletionFrames(clientClosed))
    /\ endCalls' = endCalls + 1
    /\ pc' = "closed"
    /\ UNCHANGED <<runs, streamId, clientClosed, returnCalls, produced, failure,
                   seqFailed, disconnectedAt>>
    /\ UNCHANGED <<toolVars, config, catalogVars, selectionVars, backendVars, moreVars>>

\* `await iterator.return?.()` rejects
ReturnFails(msg) ==
    /\ pc = "returning"
    /\ CatchAndEnd(msg)
    /\ UNCHANGED seqFailed
    /\ UNCHANGED <<runs, streamId, clientClosed, returnCalls, produced, disconnectedAt>>
    /\ UNCHANGED <<toolVars, config, catalogVars, selectionVars, backendVars, moreVars>>

\* GET /api/last-diff/:id: res.json({ diff: getLastDiff(id) })
LastDiffResponse(rs, id) == [diff |-> getLastDiff(rs, id)]

\* GET /api/cmd-log/:id: res.json({ commands: getCommands(id) })
CmdLogResponse(rs, id) == [commands |-> getCommands(rs, id)]

\* req.on("close"): the transport reports that the peer has gone
ClientClose ==
    /\ pc \in {"starting", "next", "returning", "closed"}
    /\ ~clientClosed
    /\ clientClosed' = TRUE
    /\ disconnectedAt' = pc
    /\ UNCHANGED <<runs, pc, streamId, frames, endCalls, returnCalls, produced,
                   failure, seqFailed, lateWrites>>
    /\ UNCHANGED <<toolVars, config, catalogVars, selectionVars, backendVars, moreVars>>

-----------------------------------------------------------------------------
(* Protocol Translator: translateCodexStream's command items                *)

CallIds == {"c1", "c2"}
Chars == {"a", "b"}
Texts == UNION {[1..n -> Chars] : n \in 0..MaxLen}
Commands == {<<"l", "s">>}
ItemEventTypes == {"item.started", "item.updated", "item.completed"}

\* CommandEventItem: id "" stands for a missing id; command and
\* aggregated_output are <<>> when missing.  exit_code and status are copied
\* into tool.end unchanged and are left out.
CommandItems ==
    [id : CallIds,
     command : {null} \cup {Some(c) : c \in Commands},
     aggregated_output : {null} \cup {Some(t) : t \in Texts}]
    \cup {[id |-> "", command |-> null, aggregated_output |-> null]}

NoCommandState == [id \in CallIds |-> <<>>]

\* item.command || "command"
ToolOf(item) ==
    IF item.command # null /\ item.command[1] # <<>>
    THEN item.command[1]
    ELSE <<"c", "o", "m", "m", "a", "n", "d">>

\* item.aggregated_output ?? ""
OutputOf(item) ==
    IF item.aggregated_output = null THEN <<>> ELSE item.aggregated_output[1]

\* output.slice(state.flushed)
ChunkWhole(output, flushed) == output

Chunk(output, flushed) == Slice(output, flushed)

FlushesOnChange(output, flushed) == Len(output) # flushed

\* output.length > state.flushed
Flushes(output, flushed) == Len(output) > flushed

\* handleCommandItem: the Map after the item, and the events it yields
handleCommandItem(cos, eventType, item) ==
    IF item.id = "" THEN [state |-> cos, events |-> <<>>]
    ELSE
    LET itemId == item.id
        existing == cos[itemId]
        tool == ToolOf(item)
        cos1 == IF existing = <<>>
                THEN [cos EXCEPT ![itemId] = Some([flushed |-> 0, tool |-> tool])]
                ELSE cos
        ev1 == IF existing = <<>>
               THEN <<[type |-> "tool.start", name |-> tool]>>
               ELSE <<>>
        state == cos1[itemId][1]
        output == OutputOf(item)
        grows == Flushes(output, state.flushed)
        cos2 == IF grows
                THEN [cos1 EXCEPT ![itemId] = Some([state EXCEPT !.flushed = Len(output)])]
                ELSE cos1
        ev2 == IF grows
               THEN <<[type |-> "tool.stdout", text |-> Chunk(output, state.flushed)]>>
               ELSE <<>>
        completed == eventType = "item.completed"
        cos3 == IF completed THEN [cos2 EXCEPT ![itemId] = <<>>] ELSE cos2
        ev3 == IF completed
               THEN <<[type |-> "tool.end", name |-> state.tool]>>
               ELSE <<>>
    IN  [state |-> cos3, events |-> ev1 \o ev2 \o ev3]

RECURSIVE StdoutOf(_)
\* the texts of the tool.stdout events of a sequence of events, concatenated
StdoutOf(events) ==
    IF events = <<>> THEN <<>>
    ELSE (IF Head(events).type = "tool.stdout" THEN Head(events).text ELSE <<>>)
         \o StdoutOf(Tail(events))

StdoutEvents(events) == {i \in 1..Len(events) : events[i].type = "tool.stdout"}

\* one native item.started / item.updated / item.completed event whose item
\* is a command_execution.  The history of a call is kept while its updates
\* are prefix-stable (each aggregated_output extends the previous one) and
\* is dropped once they are not.
CommandEvent(eventType, item) ==
    LET r == handleCommandItem(commandOutputState, eventType, item)
        id == item.id
        first == commandOutputState[id] = <<>>
        output == OutputOf(item)
        stable == first \/ (prefixStable[id] /\ IsPrefix(aggregated[id], output))
    IN  /\ commandOutputState' = r.state
        /\ IF id = ""
           THEN UNCHANGED <<aggregated, stdoutCat, prefixStable, chunkCount, lastLength, longest>>
           ELSE /\ prefixStable' = [prefixStable EXCEPT ![id] = stable]
                /\ aggregated' = [aggregated EXCEPT ![id] =
                       IF stable THEN output ELSE <<>>]
                /\ stdoutCat' = [stdoutCat EXCEPT ![id] =
                       IF stable
                       THEN (IF first THEN <<>> ELSE @) \o StdoutOf(r.events)
                       ELSE <<>>]
                /\ chunkCount' = [chunkCount EXCEPT ![id] =
                       IF stable
                       THEN (IF first THEN 0 ELSE @) + Cardinality(StdoutEvents(r.events))
                       ELSE 0]
                /\ lastLength' = [lastLength EXCEPT ![id] = Len(output)]
                /\ longest' = [longest EXCEPT ![id] =
                       IF first \/ Len(output) > @ THEN Len(output) ELSE @]
        /\ UNCHANGED <<runs, streamVars, config, catalogVars, selectionVars, backendVars, moreVars>>

-----------------------------------------------------------------------------
(* Provider adapters: streamRun                                             *)

\* the three adapters of lib/backends, and the Codex-only server.ts, which
\* starts the thread and translates its events inside the stream handler
Adapters == {"codex", "claude", "mistral"}
Providers == Adapters \cup {"server"}

\* what resolving the provider's key gives: a key, nothing, or (Claude's
\* token minting) a rejection
Credentials == {"key", "none", "rejects"}

\* the run the stream handler of server.ts serves
BackendRun == "r1"

StatusEvent == [type |-> "status"]

NetworkUnchecked(enabled) == TRUE

\* if (!config.networkAccessEnabled) throw ...
NetworkCheck(enabled) == enabled

RequiresNetwork(p) ==
    IF p = "claude" THEN <<"Claude backend requires network access">>
    ELSE <<"Mistral backend requires network access">>

MissingCredentials(p) ==
    IF p = "claude" THEN <<"Missing Claude credentials">>
    ELSE <<"Missing Mistral API key">>

\* `${getErrorMessage(error)}\nPlease re-authenticate with the Claude CLI ...`
ReAuthenticate(msg) == msg \o <<"\n", "Please re-authenticate with the Claude CLI">>

MintFailed == <<"Claude OAuth request failed">>

RequestFailed(p) ==
    CASE p = "claude" -> <<"Claude request failed">>
      [] p = "mistral" -> <<"Mistral request failed">>
      [] OTHER -> <<"Codex request failed">>

Throw(msg) ==
    /\ bpc' = "failed"
    /\ thrown' = Some(msg)

\* streamRun(prompt), up to its first await.  The Claude and Mistral adapters
\* check config.networkAccessEnabled; the Mistral adapter reads its key from
\* the environment.  The Codex adapter and server.ts start a thread and hand
\* the prompt to the SDK.
StreamRun ==
    /\ bpc = "idle"
    /\ IF provider \in {"claude", "mistral"} /\ ~NetworkCheck(networkAccessEnabled)
       THEN Throw(RequiresNetwork(provider)) /\ UNCHANGED opens
       ELSE IF provider = "claude"
       THEN bpc' = "resolving" /\ UNCHANGED <<thrown, opens>>
       ELSE IF provider = "mistral" /\ credential # "key"
       THEN Throw(MissingCredentials(provider)) /\ UNCHANGED opens
       ELSE bpc' = "opening" /\ opens' = opens + 1 /\ UNCHANGED thrown
    /\ UNCHANGED <<provider, networkAccessEnabled, credential, emitted, yielded,
                   loopVars>>
    /\ UNCHANGED <<runs, streamVars, toolVars, config, catalogVars, selectionVars, moreVars>>

\* the Claude adapter's `await resolveClaudeApiKey()` settles, and the
\* request is sent when it gave a key
ResolveApiKey ==
    /\ bpc = "resolving"
    /\ CASE credential = "rejects" ->
              Throw(ReAuthenticate(MintFailed)) /\ UNCHANGED opens
         [] credential = "none" ->
              Throw(MissingCredentials(provider)) /\ UNCHANGED opens
         [] OTHER ->
              bpc' = "opening" /\ opens' = opens + 1 /\ UNCHANGED thrown
    /\ UNCHANGED <<provider, networkAccessEnabled, credential, emitted, yielded,
                   loopVars>>
    /\ UNCHANGED <<runs, streamVars, toolVars, config, catalogVars, selectionVars, moreVars>>

\* the provider answers the request: fetch / startStream / runStreamed
\* settles.  streamRun returns the generator, or throws.
StreamOpens(ok) ==
    /\ bpc = "opening"
    /\ IF ok
       THEN /\ bpc' = (IF provider \in {"claude", "mistral"} THEN "ready" ELSE "streaming")
            /\ UNCHANGED thrown
       ELSE Throw(RequestFailed(provider))
    /\ UNCHANGED <<provider, networkAccessEnabled, credential, opens, emitted,
                   yielded, loopVars>>
    /\ UNCHANGED <<runs, streamVars, toolVars, config, catalogVars, selectionVars, moreVars>>

\* the first next() of the Claude / Mistral generator:
\* yield { type: "status", text: "Running…" }
FirstNext ==
    /\ bpc = "ready"
    /\ bpc' = "streaming"
    /\ emitted' = <<StatusEvent>>
    /\ yielded' = TRUE
    /\ UNCHANGED <<provider, networkAccessEnabled, credential, opens, thrown,
                   loopVars>>
    /\ UNCHANGED <<runs, streamVars, toolVars, config, catalogVars, selectionVars, moreVars>>

\* the native stream ends: the for-await loop and the generator finish
NativeEnds ==
    /\ bpc = "streaming"
    /\ bpc' = "ended"
    /\ emitted' = <<>>
    /\ passedThrough' = FALSE
    /\ turnClosed' = FALSE
    /\ lastSignal' = null
    /\ UNCHANGED <<provider, networkAccessEnabled, credential, opens, thrown,
                   yielded, messageBuffer, toolState, functionState,
                   conversationId, turnText, turnEnds>>
    /\ UNCHANGED <<runs, streamVars, toolVars, config, catalogVars, selectionVars, moreVars>>

-----------------------------------------------------------------------------
(* Protocol Translators: native events to Normalized Events                 *)

\* the three-backquote code fence, one token of a text
Fence == "FENCE"
Boom == <<"boom">>
Ls == <<"l", "s">>

NullableOf(set) == {null} \cup {Some(v) : v \in set}

\* a string that is present and not empty
Truthy(v) == v # null /\ v[1] # <<>>

\* v || d
OrElse(v, d) == IF Truthy(v) THEN v[1] ELSE d

Min2(a, b) == IF a < b THEN a ELSE b

\* the `error` property of a native failure signal: missing, a string, or
\* an object whose `message` is missing or a string
ErrorValues ==
    {[kind |-> "undefined", message |-> null], [kind |-> "object", message |-> null]}
    \cup [kind : {"string", "object"}, message : {Some(<<>>), Some(Boom)}]

ErrorTextGeneric(err, generic) == generic

\* typeof ev.error === "string" ? ev.error : ev.error?.message || generic
ErrorText(err, generic) ==
    IF err.kind = "string" THEN err.message[1]
    ELSE IF err.kind = "object" /\ Truthy(err.message) THEN err.message[1]
    ELSE generic

\* emitDiff: if (!patch) return; yield { type: "diff", diff: { patch } }
emitDiff(patch) ==
    IF Truthy(patch) THEN <<[type |-> "diff", patch |-> patch[1]]>> ELSE <<>>

\* if (text) yield { type, text }
emitText(type, text) ==
    IF Truthy(text) THEN <<[type |-> type, text |-> text[1]]>> ELSE <<>>

RECURSIVE MessageTextOf(_)
\* the texts of the message events of a sequence of events, concatenated
MessageTextOf(events) ==
    IF events = <<>> THEN <<>>
    ELSE (IF Head(events).type = "message" THEN Head(events).text ELSE <<>>)
         \o MessageTextOf(Tail(events))

\* ---- Codex ----

AgentTexts == {<<>>, <<"x">>, <<Fence, "diff", "\n", "x", Fence>>}

\* the items of item.* events.  A missing id is ""; exit_code and status are
\* left out as in CommandItems.
CodexItems ==
    [type : {"reasoning"}, text : NullableOf({<<>>, <<"x">>})]
    \cup [type : {"agent_message"}, text : NullableOf(AgentTexts)]
    \cup [type : {"command_execution"}, id : {"c1", ""},
          command : NullableOf({Ls}),
          aggregated_output : NullableOf({<<"a">>, <<"a", "b">>})]
    \cup {[type |-> "file_change", patch |-> f[1], diffPatch |-> f[2], changes |-> f[3]] :
             f \in {<<null, null, null>>,
                    <<Some(<<"p">>), Some(<<"q">>), null>>,
                    <<Some(<<>>), Some(<<"q">>), null>>,
                    <<null, Some(<<>>), Some(<<null, Some(<<"r">>)>>)>>,
                    <<null, null, Some(<<>>)>>}}
    \cup [type : {"error"}, message : NullableOf({Boom})]
    \cup {[type |-> "todo_list"]}

\* the events of a Codex thread.  `item` is <<>> when the event has none; a
\* missing type is "".  "ping" is a type no translator knows; "message" is a
\* native event that happens to carry a Normalized Event's type.
CodexNative ==
    {[type |-> t] : t \in {"thread.started", "turn.started", "turn.completed", "ping", ""}}
    \cup {[type |-> "message", text |-> <<"x">>]}
    \cup [type : {"turn.failed"}, error : ErrorValues]
    \cup [type : {"error"}, error : ErrorValues, message : NullableOf({<<"m">>})]
    \cup [type : ItemEventTypes, item : NullableOf(CodexItems)]
    \cup [type : {"diff"}, diff : NullableOf({<<>>, <<"p">>})]

\* changes.find((change) => change.patch)?.patch
FirstPatch(changes) ==
    LET found == {i \in 1..Len(changes) : Truthy(changes[i])}
    IN  IF found = {} THEN null
        ELSE changes[CHOOSE i \in found : \A j \in found : i <= j]

\* item.patch || item.diff?.patch || (Array.isArray(item.changes) ? ... : null)
PatchOf(item) ==
    IF Truthy(item.patch) THEN item.patch
    ELSE IF Truthy(item.diffPatch) THEN item.diffPatch
    ELSE IF item.changes # null THEN FirstPatch(item.changes[1])
    ELSE null

Translated(state, events) == [state |-> state, events |-> events, error |-> null]
Thrown(state, events, msg) == [state |-> state, events |-> events, error |-> Some(msg)]

\* one round of translateCodexStream's for-await loop: the Map after the
\* native event, the events yielded for it, and the Error thrown, if any
translateCodexStream(cos, ev) ==
    CASE ev.type = "thread.started" -> Translated(cos, <<>>)
      [] ev.type = "turn.started" -> Translated(cos, <<StatusEvent>>)
      [] ev.type = "turn.completed" -> Translated(cos, <<>>)
      [] ev.type = "turn.failed" ->
            Thrown(cos, <<>>, ErrorText(ev.error, <<"Codex turn failed">>))
      [] ev.type \in ItemEventTypes ->
            IF ev.item = null THEN Translated(cos, <<>>)
            ELSE LET item == ev.item[1] IN
                 CASE item.type = "reasoning" ->
                        Translated(cos, emitText("thinking", item.text))
                   [] item.type = "agent_message" ->
                        Translated(cos, IF ev.type = "item.completed"
                                        THEN emitText("message", item.text)
                                        ELSE <<>>)
                   [] item.type = "command_execution" ->
                        LET r == handleCommandItem(cos, ev.type, item)
                        IN  Translated(r.state, r.events)
                   [] item.type = "file_change" ->
                        Translated(cos, emitDiff(PatchOf(item)))
                   [] item.type = "error" ->
                        Translated(cos, <<[type |-> "message",
                                           text |-> OrElse(item.message, <<"Agent error">>)]>>)
                   [] OTHER -> Translated(cos, <<>>)
      [] ev.type = "error" ->
            Thrown(cos, <<>>, ErrorText(ev.error, <<"Codex stream error">>))
      [] OTHER ->
            IF ev.type = "diff" THEN Translated(cos, emitDiff(ev.diff))
            ELSE Translated(cos, <<>>)

\* what every translator's loop does with the outcome of one native event;
\* `signal` tells whether the event is a turn-failed or top-level error
\* signal, `starts` and `ends` whether it opens or closes a provider turn.
\* The text of a turn is recorded for the translators that search it for
\* fenced blocks.
Consumed(ev, events, error, signal, starts, ends) ==
    /\ lastSignal' = (IF signal \/ error # null THEN Some(ev) ELSE null)
    /\ passedThrough' = (\E i \in 1..Len(events) : events[i] = ev)
    /\ turnClosed' = ends
    /\ emitted' = events
    /\ yielded' = (yielded \/ events # <<>>)
    /\ turnText' = (IF provider \in {"claude", "mistral"}
                    THEN (IF starts THEN <<>> ELSE turnText) \o MessageTextOf(events)
                    ELSE turnText)
    /\ turnEnds' = (IF starts THEN 0 ELSE Min2(turnEnds + (IF ends THEN 1 ELSE 0), 2))
    /\ IF error # null THEN Throw(error[1]) ELSE UNCHANGED <<bpc, thrown>>
    /\ UNCHANGED <<provider, networkAccessEnabled, credential>>

\* the Codex translator consumes one native event
CodexStep(ev) ==
    /\ provider = "codex"
    /\ bpc = "streaming"
    /\ LET r == translateCodexStream(commandOutputState, ev)
       IN  /\ commandOutputState' = r.state
           /\ Consumed(ev, r.events, r.error, ev.type \in {"turn.failed", "error"},
                       ev.type = "turn.started", ev.type = "turn.completed")
    /\ UNCHANGED <<opens, messageBuffer, toolState, functionState, conversationId>>
    /\ UNCHANGED <<aggregated, stdoutCat, prefixStable, chunkCount, lastLength, longest>>
    /\ UNCHANGED <<runs, streamVars, config, catalogVars, selectionVars, restVars>>

\* the same, with nobody observing the calls
CodexEvent(ev) == CodexStep(ev) /\ UNCHANGED callVars

\* ---- server.ts: the stream handler's own translation ----

\* handleCommandItem of server.ts: it logs to the Run Store and sends
serverHandleCommandItem(cos, rs, id, eventType, item) ==
    IF item.id = "" THEN [state |-> cos, runs |-> rs, events |-> <<>>]
    ELSE
    LET existing == cos[item.id]
        cmdLine == ToolOf(item)
        cos1 == IF existing = <<>>
                THEN [cos EXCEPT ![item.id] = Some([flushed |-> 0, tool |-> cmdLine])]
                ELSE cos
        rs1 == IF existing = <<>> THEN appendCommandLog(rs, id, StartLine(cmdLine)) ELSE rs
        ev1 == IF existing = <<>>
               THEN <<[type |-> "tool.start", name |-> cmdLine]>>
               ELSE <<>>
        state == cos1[item.id][1]
        output == OutputOf(item)
        grows == Flushes(output, state.flushed)
        chunk == Slice(output, state.flushed)
        cos2 == IF grows
                THEN [cos1 EXCEPT ![item.id] = Some([state EXCEPT !.flushed = Len(output)])]
                ELSE cos1
        rs2 == IF grows THEN appendCommandLog(rs1, id, chunk) ELSE rs1
        ev2 == IF grows THEN <<[type |-> "tool.stdout", text |-> chunk]>> ELSE <<>>
        completed == eventType = "item.completed"
        cos3 == IF completed THEN [cos2 EXCEPT ![item.id] = <<>>] ELSE cos2
        ev3 == IF completed THEN <<[type |-> "tool.end", name |-> cmdLine]>> ELSE <<>>
    IN  [state |-> cos3, runs |-> rs2, events |-> ev1 \o ev2 \o ev3]

Sent(state, rs, events) == [state |-> state, runs |-> rs, events |-> events, error |-> null]

\* emitDiff of server.ts: setLastDiff(id, patch); send({ type: "diff", ... })
serverEmitDiff(cos, rs, id, patch) ==
    IF Truthy(patch)
    THEN Sent(cos, setLastDiff(rs, id, patch[1]), emitDiff(patch))
    ELSE Sent(cos, rs, <<>>)

\* translateEvent of server.ts: the Map and the Run Store after the native
\* event, the payloads sent for it, and the Error thrown, if any
translateEvent(cos, rs, id, ev) ==
    CASE ev.type = "thread.started" -> Sent(cos, rs, <<>>)
      [] ev.type = "turn.started" -> Sent(cos, rs, <<StatusEvent>>)
      [] ev.type = "turn.completed" -> Sent(cos, rs, <<>>)
      [] ev.type = "turn.failed" ->
            [state |-> cos, runs |-> rs, events |-> <<>>,
             error |-> Some(IF ev.error.kind = "object" /\ Truthy(ev.error.message)
                            THEN ev.error.message[1]
                            ELSE <<"Codex turn failed">>)]
      [] ev.type \in ItemEventTypes ->
            IF ev.item = null THEN Sent(cos, rs, <<>>)
            ELSE LET item == ev.item[1] IN
                 CASE item.type = "reasoning" ->
                        Sent(cos, rs, emitText("thinking", item.text))
                   [] item.type = "agent_message" ->
                        Sent(cos, rs, IF ev.type = "item.completed"
                                      THEN emitText("message", item.text)
                                      ELSE <<>>)
                   [] item.type = "command_execution" ->
                        LET r == serverHandleCommandItem(cos, rs, id, ev.type, item)
                        IN  Sent(r.state, r.runs, r.events)
                   [] item.type = "file_change" ->
                        serverEmitDiff(cos, rs, id, PatchOf(item))
                   [] item.type = "error" ->
                        Sent(cos, rs, <<[type |-> "message",
                                         text |-> OrElse(item.message, <<"Agent error">>)]>>)
                   [] OTHER -> Sent(cos, rs, <<>>)
      [] ev.type = "error" ->
            [state |-> cos, runs |-> rs, events |-> <<>>,
             error |-> Some(OrElse(ev.message, <<"Codex stream error">>))]
      [] OTHER ->
            IF ev.type = "diff" /\ Truthy(ev.diff)
            THEN serverEmitDiff(cos, rs, id, ev.diff)
            ELSE IF ev.type # "" THEN Sent(cos, rs, <<ev>>)
            ELSE Sent(cos, rs, <<>>)

\* the stream handler of server.ts translates one native event
ServerEvent(ev) ==
    /\ provider = "server"
    /\ bpc = "streaming"
    /\ LET r == translateEvent(commandOutputState, runs, BackendRun, ev)
       IN  /\ Len(getCommands(r.runs, BackendRun)) <= MaxLog
           /\ commandOutputState' = r.state
           /\ runs' = r.runs
           /\ Consumed(ev, r.events, r.error, ev.type \in {"turn.failed", "error"},
                       FALSE, FALSE)
    /\ UNCHANGED <<opens, messageBuffer, toolState, functionState, conversationId>>
    /\ UNCHANGED <<aggregated, stdoutCat, prefixStable, chunkCount, lastLength, longest>>
    /\ UNCHANGED <<streamVars, config, catalogVars, selectionVars, moreVars>>

\* ---- extractDiffs (backends/utils.ts) ----

Minimum(set) == CHOOSE i \in set : \A j \in set : i <= j

\* the regular expression's opener at position i: the fence, `diff` or
\* `patch`, and a newline
IsOpener(text, i) ==
    /\ i + 2 <= Len(text)
    /\ text[i] = Fence
    /\ text[i + 1] \in {"diff", "patch"}
    /\ text[i + 2] = "\n"

\* the fences that can close the block opened at i
Closers(text, i) == {j \in (i + 3)..Len(text) : text[j] = Fence}

\* where regex.exec can match from `start` on
MatchesFrom(text, start) ==
    {i \in start..Len(text) : IsOpener(text, i) /\ Closers(text, i) # {}}

ExtractUntrimmed(text) ==
    LET ms == MatchesFrom(text, 1)
    IN  IF ms = {} THEN <<>>
        ELSE LET i == Minimum(ms)
             IN  <<SubSeq(text, i + 3, Minimum(Closers(text, i)) - 1)>>

RECURSIVE extractFrom(_, _)
\* the loop `while ((match = regex.exec(text)))`: the leftmost match, its
\* body up to the nearest fence (lazy), then on from behind that fence
extractFrom(text, start) ==
    LET ms == MatchesFrom(text, start)
    IN  IF ms = {} THEN <<>>
        ELSE LET i == Minimum(ms)
                 j == Minimum(Closers(text, i))
                 body == SubSeq(text, i + 3, j - 1)
             IN  (IF body # <<>> THEN <<TrimEnd(body)>> ELSE <<>>)
                 \o extractFrom(text, j + 1)

extractDiffs(text) == extractFrom(text, 1)

\* for (const patch of diffs) yield { type: "diff", diff: { patch } }
DiffEvents(patches) == [i \in 1..Len(patches) |-> [type |-> "diff", patch |-> patches[i]]]

\* ---- the translators' Maps ----

MapHas(m, id) == \E e \in m : e.id = id
MapGet(m, id) == CHOOSE e \in m : e.id = id
MapSet(m, e) == {x \in m : x.id # e.id} \cup {e}
MapKeeps(m, id) == m

\* map.delete(id)
MapDelete(m, id) == {x \in m : x.id # id}

\* ---- Claude ----

Word == <<"t", "e", "x", "t">>

NoBlock == [type |-> "", name |-> null, text |-> null]
NoDelta == [type |-> "", text |-> null, partial_json |-> null]

\* payload.content_block of content_block_start
ClaudeBlocks(texts) ==
    {NoBlock}
    \cup [type : {"tool_use"}, name : NullableOf({Ls}), text : {null}]
    \cup [type : {"text"}, name : {null}, text : NullableOf(texts \cup {<<>>})]
    \cup [type : {"thinking"}, name : {null}, text : NullableOf({<<"x">>})]

\* payload.delta of content_block_delta
ClaudeDeltas(texts) ==
    {NoDelta}
    \cup [type : {"text_delta"}, text : NullableOf(texts \cup {<<>>}), partial_json : {null}]
    \cup [type : {"thinking_delta"}, text : NullableOf({<<"x">>}), partial_json : {null}]
    \cup [type : {"input_json_delta"}, text : {null}, partial_json : NullableOf({<<"{">>})]

\* the events parseSseStream yields.  `json` tells whether `data` is present,
\* is not "[DONE]" and parses; `index` is <<>> when the payload has none.
\* "ping" and "message" are event names the translator has no case for.
ClaudeEvents(texts) ==
    [event : {"message_stop", "error"}, json : {FALSE}]
    \cup [event : {"message_start", "message_stop", "ping", "message"}, json : {TRUE}]
    \cup [event : {"content_block_start"}, json : {TRUE},
          index : NullableOf({1}), content_block : ClaudeBlocks(texts)]
    \cup [event : {"content_block_delta"}, json : {TRUE},
          index : NullableOf({1}), delta : ClaudeDeltas(texts)]
    \cup [event : {"content_block_stop"}, json : {TRUE}, index : NullableOf({1})]
    \cup [event : {"error"}, json : {TRUE}, error : ErrorValues]

ClaudeNative == ClaudeEvents({Word})

\* events whose data is the JSON text `null`: JSON.parse gives null
ClaudeNulls ==
    [event : {"content_block_start", "content_block_stop", "message_stop"},
     json : {TRUE}, payload : {null}]

IsNullPayload(ev) == "payload" \in DOMAIN ev

\* the message of the TypeError a property read of null throws
NullRead(property) ==
    <<"Cannot read properties of null (reading '">> \o property \o <<"')">>

\* payload.index ?? 0
IndexOf(ev) == IF ev.index = null THEN 0 ELSE ev.index[1]

Yields(buffer, tools, events) ==
    [buffer |-> buffer, tools |-> tools, events |-> events, error |-> null]

\* one round of the Claude generator's for-await loop: messageBuffer and
\* toolState after the event, the events yielded for it, the Error thrown.
\* A tool's args are display strings and are left out, so input_json_delta
\* changes nothing here.
translateClaudeStream(buffer, tools, ev) ==
    IF ~ev.json THEN Yields(buffer, tools, <<>>)
    ELSE IF IsNullPayload(ev)
    THEN CASE ev.event \in {"content_block_start", "content_block_delta",
                            "content_block_stop"} ->
                 [buffer |-> buffer, tools |-> tools, events |-> <<>>,
                  error |-> Some(NullRead(<<"index">>))]
           [] ev.event = "error" ->
                 [buffer |-> buffer, tools |-> tools, events |-> <<>>,
                  error |-> Some(NullRead(<<"error">>))]
           [] ev.event = "message_stop" ->
                 Yields(buffer, tools, DiffEvents(extractDiffs(buffer)))
           [] OTHER -> Yields(buffer, tools, <<>>)
    ELSE
    CASE ev.event = "message_start" -> Yields(buffer, tools, <<>>)
      [] ev.event = "content_block_start" ->
            LET block == ev.content_block IN
            CASE block.type = "tool_use" ->
                    LET name == OrElse(block.name, <<"tool">>)
                    IN  Yields(buffer, MapSet(tools, [id |-> IndexOf(ev), name |-> name]),
                               <<[type |-> "tool.start", name |-> name]>>)
              [] block.type = "text" /\ Truthy(block.text) ->
                    Yields(buffer \o block.text[1], tools,
                           <<[type |-> "message", text |-> block.text[1]]>>)
              [] block.type = "thinking" ->
                    Yields(buffer, tools, emitText("thinking", block.text))
              [] OTHER -> Yields(buffer, tools, <<>>)
      [] ev.event = "content_block_delta" ->
            LET delta == ev.delta IN
            CASE delta.type = "text_delta" /\ Truthy(delta.text) ->
                    Yields(buffer \o delta.text[1], tools,
                           <<[type |-> "message", text |-> delta.text[1]]>>)
              [] delta.type = "thinking_delta" ->
                    Yields(buffer, tools, emitText("thinking", delta.text))
              [] OTHER -> Yields(buffer, tools, <<>>)
      [] ev.event = "content_block_stop" ->
            IF MapHas(tools, IndexOf(ev))
            THEN Yields(buffer, MapDelete(tools, IndexOf(ev)),
                        <<[type |-> "tool.end", name |-> MapGet(tools, IndexOf(ev)).name]>>)
            ELSE Yields(buffer, tools, <<>>)
      [] ev.event = "message_stop" ->
            Yields(buffer, tools, DiffEvents(extractDiffs(buffer)))
      [] ev.event = "error" ->
            [buffer |-> buffer, tools |-> tools, events |-> <<>>,
             error |-> Some(ErrorText(ev.error, <<"Claude error">>))]
      [] OTHER -> Yields(buffer, tools, <<>>)

\* the Claude translator consumes one event of the response
ClaudeStep(ev) ==
    /\ provider = "claude"
    /\ bpc = "streaming"
    /\ LET r == translateClaudeStream(messageBuffer, toolState, ev)
       IN  /\ Len(r.buffer) <= MaxText
           /\ messageBuffer' = r.buffer
           /\ toolState' = r.tools
           /\ Consumed(ev, r.events, r.error, ev.json /\ ev.event = "error",
                       FALSE, ev.json /\ ev.event = "message_stop")
    /\ UNCHANGED <<opens, functionState, conversationId>>
    /\ UNCHANGED <<runs, streamVars, toolVars, config, catalogVars, selectionVars, restVars>>

\* the same, with nobody observing the calls
ClaudeEvent(ev) == ClaudeStep(ev) /\ UNCHANGED callVars

\* ---- Mistral ----

\* payload.info / payload.content of conversation.response.error: <<>> when
\* null or undefined, else a string or an object given by its JSON text
Details ==
    NullableOf([kind : {"string"}, text : {<<>>, Boom}]
               \cup {[kind |-> "object", text |-> <<"{", "}">>]})

\* JSON.stringify(payload) of an error payload without info and content
PayloadJson == <<"{type:conversation.response.error}">>

\* payload.content: falsy, a string, another primitive, or a ContentChunk
\* (`thinking` is <<>> when it is not an array)
Contents(texts) ==
    {[kind |-> "falsy"], [kind |-> "number"]}
    \cup [kind : {"string"}, text : texts]
    \cup [kind : {"chunk"}, type : {"text", "thinking", "other"},
          text : NullableOf(texts),
          thinking : NullableOf({<<null, Some(<<"x">>)>>})]

\* what executeMistralTool reports of the tool it ran
ToolResults == {[stdout |-> <<"o">>, stderr |-> <<"e">>], [stdout |-> <<>>, stderr |-> <<>>]}
NoResult == [stdout |-> <<>>, stderr |-> <<>>]

\* an opening fragment, and complete JSON; with these a call's accumulated
\* arguments are "", the fragment, or complete
ArgTexts == {<<"{">>, <<"{", "}">>}

\* the payloads of the conversation stream; a missing payload or type is ""
MistralEvents(texts) ==
    {[type |-> ""], [type |-> "conversation.response.done"]}
    \cup [type : {"conversation.response.started"}, conversationId : NullableOf({<<"v1">>})]
    \cup [type : {"conversation.response.error"}, info : Details, content : Details]
    \cup [type : {"message.output.delta"}, content : Contents(texts)]
    \cup [type : {"other"}, content : {[kind |-> "falsy"]} \cup [kind : {"string"}, text : texts]]
    \cup [type : {"tool.execution.started", "tool.execution.done"},
          id : {Some(<<"t1">>)}, name : NullableOf({Ls}), arguments : {null}]
    \cup [type : {"tool.execution.started", "tool.execution.done"},
          id : {null}, name : {null}, arguments : {null}]
    \cup {[type |-> "tool.execution.delta", id |-> Some(<<"t1">>), name |-> null,
           arguments |-> null]}
    \cup {[type |-> "function.call.delta", toolCallId |-> k[1], id |-> k[2],
           name |-> n, arguments |-> a] :
             k \in {<<Some(<<"f1">>), null>>, <<null, Some(<<"f1">>)>>, <<null, null>>},
             n \in NullableOf({Ls}), a \in NullableOf(ArgTexts)}

MistralNative == MistralEvents({Word})

IsFunctionCall(payload) == payload.type = "function.call.delta"
MistralCalls == {m \in MistralNative : IsFunctionCall(m)}
MistralOthers == MistralNative \ MistralCalls

RECURSIVE ThinkingEvents(_)
\* for (const part of chunk.thinking) if (part?.text) yield thinking
ThinkingEvents(parts) ==
    IF parts = <<>> THEN <<>>
    ELSE emitText("thinking", Head(parts)) \o ThinkingEvents(Tail(parts))

\* handleContent: the events a content value gives
handleContent(content) ==
    CASE content.kind = "string" -> <<[type |-> "message", text |-> content.text]>>
      [] content.kind = "chunk" ->
            IF content.type = "text" /\ Truthy(content.text)
            THEN <<[type |-> "message", text |-> content.text[1]]>>
            ELSE IF content.type = "thinking" /\ content.thinking # null
            THEN ThinkingEvents(content.thinking[1])
            ELSE emitText("message", content.text)
      [] OTHER -> <<>>

\* payload.id || `${payload.name || "tool"}-${payload.arguments || ""}`
ToolKey(payload) ==
    IF Truthy(payload.id) THEN payload.id[1]
    ELSE OrElse(payload.name, <<"tool">>) \o <<"-">> \o OrElse(payload.arguments, <<>>)

\* state.args.trim() is not empty and JSON.parse(state.args) succeeds
IsJson(args) == args = <<"{", "}">>

\* info ?? content ?? payload, as text
DetailText(payload) ==
    IF payload.info # null THEN payload.info[1].text
    ELSE IF payload.content # null THEN payload.content[1].text
    ELSE PayloadJson

MistralState(buffer, tools, functions, conversation) ==
    [buffer |-> buffer, tools |-> tools, functions |-> functions,
     conversationId |-> conversation]

Goes(st, events) ==
    [state |-> st, events |-> events, error |-> null, appended |-> FALSE]

\* case "function.call.delta"; `result` is what the tool gives if it is
\* executed, `ok` whether appendStream resolves
functionCallDelta(st, payload, result, ok) ==
    LET toolCallId == IF Truthy(payload.toolCallId) THEN payload.toolCallId
                      ELSE IF Truthy(payload.id) THEN payload.id
                      ELSE null
    IN  IF toolCallId = null THEN Goes(st, <<>>)
        ELSE
        LET id == toolCallId[1]
            exists == MapHas(st.functions, id)
            existing == MapGet(st.functions, id)
            name == IF Truthy(payload.name) THEN payload.name[1]
                    ELSE IF exists THEN existing.name
                    ELSE <<"function">>
            incomingArgs == OrElse(payload.arguments, <<>>)
            updatedArgs == IF exists /\ existing.args # <<>>
                           THEN (IF IsPrefix(existing.args, incomingArgs)
                                 THEN incomingArgs
                                 ELSE existing.args \o incomingArgs)
                           ELSE incomingArgs
            executed == exists /\ existing.executed
            state == [id |-> id, name |-> name, args |-> updatedArgs, executed |-> executed]
            runs_ == ~executed /\ IsJson(updatedArgs)
            tool == [type |-> "tool.start", name |-> name]
            events == <<tool>>
                      \o (IF result.stdout # <<>>
                          THEN <<[type |-> "tool.stdout", text |-> result.stdout]>> ELSE <<>>)
                      \o (IF result.stderr # <<>>
                          THEN <<[type |-> "tool.stderr", text |-> result.stderr]>> ELSE <<>>)
                      \o <<[type |-> "tool.end", name |-> name]>>
            ran == [st EXCEPT !.functions = MapSet(@, [state EXCEPT !.executed = TRUE])]
        IN  IF ~runs_
            THEN Goes([st EXCEPT !.functions = MapSet(@, state)], <<>>)
            ELSE IF st.conversationId = null
            THEN [state |-> ran, events |-> events, appended |-> FALSE,
                  error |-> Some(<<"Missing conversation id for tool response">>)]
            ELSE IF ~ok
            THEN [state |-> ran, events |-> events, appended |-> FALSE,
                  error |-> Some(RequestFailed("mistral"))]
            ELSE [state |-> [st EXCEPT !.functions = MapDelete(@, id)],
                  events |-> events, appended |-> TRUE, error |-> null]

\* the events of handleContent, with the message texts added to messageBuffer
contentEvents(st, content) ==
    LET items == handleContent(content)
    IN  Goes([st EXCEPT !.buffer = @ \o MessageTextOf(items)], items)

\* one round of the Mistral generator's for-await loop: its variables after
\* the payload, the events yielded, the Error thrown, and whether the loop
\* goes on with the stream appendStream returned
translateMistralStream(st, payload, result, ok) ==
    CASE payload.type = "" -> Goes(st, <<>>)
      [] payload.type = "conversation.response.started" ->
            Goes([st EXCEPT !.conversationId =
                                IF payload.conversationId # null
                                THEN payload.conversationId ELSE @,
                            !.buffer = <<>>],
                 <<StatusEvent>>)
      [] payload.type = "conversation.response.error" ->
            [state |-> st, events |-> <<>>, appended |-> FALSE,
             error |-> Some(<<"Mistral stream error">> \o <<": ">> \o DetailText(payload))]
      [] payload.type = "message.output.delta" -> contentEvents(st, payload.content)
      [] payload.type \in {"tool.execution.started", "tool.execution.delta"} ->
            IF MapHas(st.tools, ToolKey(payload)) THEN Goes(st, <<>>)
            ELSE LET name == OrElse(payload.name, <<"tool">>)
                 IN  Goes([st EXCEPT !.tools = MapSet(@, [id |-> ToolKey(payload), name |-> name])],
                          <<[type |-> "tool.start", name |-> name]>>)
      [] payload.type = "tool.execution.done" ->
            LET id == ToolKey(payload)
                name == IF MapHas(st.tools, id) THEN MapGet(st.tools, id).name
                        ELSE OrElse(payload.name, <<"tool">>)
            IN  Goes([st EXCEPT !.tools = MapDelete(@, id)],
                     <<[type |-> "tool.end", name |-> name]>>)
      [] payload.type = "function.call.delta" -> functionCallDelta(st, payload, result, ok)
      [] payload.type = "conversation.response.done" ->
            Goes(st, DiffEvents(extractDiffs(st.buffer)))
      [] OTHER -> contentEvents(st, payload.content)

\* the Mistral translator consumes one payload of the conversation stream
MistralStep(payload, result, ok) ==
    /\ provider = "mistral"
    /\ bpc = "streaming"
    /\ LET r == translateMistralStream(
                    MistralState(messageBuffer, toolState, functionState, conversationId),
                    payload, result, ok)
       IN  /\ Len(r.state.buffer) <= MaxText
           /\ r.appended => opens < MaxOpens
           /\ messageBuffer' = r.state.buffer
           /\ toolState' = r.state.tools
           /\ functionState' = r.state.functions
           /\ conversationId' = r.state.conversationId
           /\ opens' = (IF r.appended THEN opens + 1 ELSE opens)
           /\ Consumed(payload, r.events, r.error,
                       payload.type = "conversation.response.error",
                       payload.type = "conversation.response.started",
                       payload.type = "conversation.response.done")
    /\ UNCHANGED <<runs, streamVars, toolVars, config, catalogVars, selectionVars, restVars>>

\* the same, with nobody observing the calls
MistralEvent(payload, result, ok) ==
    MistralStep(payload, result, ok) /\ UNCHANGED callVars

\* ---- the tool calls and patches of a run, as the provider announces them ----

\* the native events that announce, update or complete a Codex command, or
\* carry a file change, between the marks of a turn
CallsCodexNative ==
    {[type |-> t] : t \in {"turn.started", "turn.completed", ""}}
    \cup [type : ItemEventTypes, item : {null}]
    \cup [type : ItemEventTypes,
          item : {Some(i) : i \in
                     [type : {"command_execution"}, id : CallIds, command : {Some(Ls)},
                      aggregated_output : NullableOf({<<"a">>})]
                     \cup {[type |-> "file_change", patch |-> Some(<<"p">>),
                             diffPatch |-> null, changes |-> null]}}]

\* the events that open and close a content block of a Claude response
CallsClaudeNative ==
    {ev \in ClaudeNative :
        \/ ~ev.json
        \/ ev.event = "message_stop"
        \/ ev.event = "content_block_stop"
        \/ /\ ev.event = "content_block_start"
           /\ ev.content_block.type \in {"tool_use", ""}
           /\ ev.content_block.name # null}
    \cup ClaudeNulls

\* the payloads of a Mistral conversation that are about a tool or function
\* call, and the marks of a turn
CallsMistralNative ==
    {m \in MistralNative :
        \/ m.type \in {"conversation.response.done", ""}
        \/ m.type = "conversation.response.started" /\ m.conversationId # null
        \/ m.type \in {"tool.execution.started", "tool.execution.delta",
                       "tool.execution.done"}
        \/ IsFunctionCall(m) /\ m.toolCallId # null /\ m.name # null}

\* how a native event names a call: <<>> when it is about no call
NoCallNamed == [call |-> null, completes |-> FALSE]
Names(key, completes) == [call |-> Some(key), completes |-> completes]

\* a command item with an id is about the call of that id; item.completed
\* is its completion notice
CodexCallOf(ev) ==
    IF /\ ev.type \in ItemEventTypes
       /\ ev.item # null
       /\ ev.item[1].type = "command_execution"
       /\ ev.item[1].id # ""
    THEN Names(ev.item[1].id, ev.type = "item.completed")
    ELSE NoCallNamed

\* a tool_use block is a call, named by the block's index; content_block_stop
\* of that index is its completion notice
ClaudeCallOf(ev) ==
    IF ~ev.json \/ IsNullPayload(ev) THEN NoCallNamed
    ELSE IF ev.event = "content_block_start" /\ ev.content_block.type = "tool_use"
    THEN Names(IndexOf(ev), FALSE)
    ELSE IF ev.event = "content_block_stop"
    THEN Names(IndexOf(ev), TRUE)
    ELSE NoCallNamed

\* a function call's key, kept apart from the keys of the built-in tools
FunctionKey(id) == <<"function", ":">> \o id
IsFunctionKey(key) == Len(key) >= 2 /\ key[1] = "function" /\ key[2] = ":"

\* a tool.execution payload is about the built-in tool call of its key,
\* tool.execution.done being the completion notice; a function.call.delta is
\* about the function call of its toolCallId, which is complete once its
\* arguments are: the translator then runs it (`ran`)
MistralCallOf(payload, ran) ==
    IF payload.type \in {"tool.execution.started", "tool.execution.delta"}
    THEN Names(ToolKey(payload), FALSE)
    ELSE IF payload.type = "tool.execution.done"
    THEN Names(ToolKey(payload), TRUE)
    ELSE IF IsFunctionCall(payload) /\ Truthy(payload.toolCallId)
    THEN Names(FunctionKey(payload.toolCallId[1]), ran)
    ELSE NoCallNamed

ToolEventTypes == {"tool.start", "tool.stdout", "tool.stderr", "tool.end"}

RECURSIVE Reported(_, _)
\* the patches reported so far in a turn, after `events`: each with 1, or
\* with 2 when it was reported more than once
Reported(seen, events) ==
    IF events = <<>> THEN seen
    ELSE LET e == Head(events)
             before == {r \in seen : e.type = "diff" /\ r.patch = e.patch}
             after == IF e.type # "diff" THEN seen
                      ELSE (seen \ before)
                           \cup {[patch |-> e.patch,
                                   times |-> IF before = {} THEN 1 ELSE 2]}
         IN  Reported(after, Tail(events))

\* where a call's events stand after one more event of type `t`
After(entry, t) ==
    IF entry.fault # "none" THEN entry
    ELSE CASE entry.phase = "closed" -> [entry EXCEPT !.fault = "afterEnd"]
           [] entry.phase = "unseen" /\ t = "tool.start" -> [entry EXCEPT !.phase = "open"]
           [] entry.phase = "unseen" /\ t = "tool.end" ->
                 [entry EXCEPT !.fault = "endWithoutStart"]
           [] entry.phase = "unseen" -> [entry EXCEPT !.fault = "outputWithoutStart"]
           [] entry.phase = "open" /\ t = "tool.start" ->
                 [entry EXCEPT !.fault = "startedTwice"]
           [] entry.phase = "open" /\ t = "tool.end" -> [entry EXCEPT !.phase = "closed"]
           [] OTHER -> entry

RECURSIVE Logged(_, _, _)
\* the log after the tool events among `events`, all emitted for `call`
Logged(log, call, events) ==
    IF events = <<>> THEN log
    ELSE LET e == Head(events)
             known == {x \in log : x.call = call}
             entry == IF known = {} THEN [call |-> call, phase |-> "unseen", fault |-> "none"]
                      ELSE CHOOSE x \in known : TRUE
             next == IF e.type \in ToolEventTypes
                     THEN (log \ known) \cup {After(entry, e.type)}
                     ELSE log
         IN  Logged(next, call, Tail(events))

\* a native event without its type, an item event without its item
CodexMalformed(ev) == ev.type = "" \/ (ev.type \in ItemEventTypes /\ ev.item = null)

\* an event whose data does not parse, or parses to null
ClaudeMalformed(ev) == ~ev.json \/ IsNullPayload(ev)

\* a payload without its type
MistralMalformed(payload) == payload.type = ""

\* what an observer records of one native event: `named` is the call the
\* event is about, `starts` whether it opens a turn, `events` what the
\* translator emitted for it, `malformed` whether the event is malformed
Observe(named, starts, events, malformed) ==
    /\ skipped' = malformed
    /\ reports' = Reported(IF starts THEN {} ELSE reports, events)
    /\ callLog' = (IF named.call = null THEN callLog
                   ELSE Logged(callLog, named.call[1], events))
    /\ openCalls' = (IF named.call = null THEN openCalls
                     ELSE IF named.completes THEN openCalls \ {named.call[1]}
                     ELSE openCalls \cup {named.call[1]})

\* the Codex translator consumes one native event, observed
CodexCall(ev) ==
    /\ CodexStep(ev)
    /\ Observe(CodexCallOf(ev), ev.type = "turn.started", emitted', CodexMalformed(ev))

\* the Claude translator consumes one event of the response, observed
ClaudeCall(ev) ==
    /\ ClaudeStep(ev)
    /\ Observe(ClaudeCallOf(ev), FALSE, emitted', ClaudeMalformed(ev))

\* the Mistral translator consumes one payload, observed
MistralCall(payload, result, ok) ==
    /\ MistralStep(payload, result, ok)
    /\ Observe(MistralCallOf(payload, opens' > opens),
               payload.type = "conversation.response.started", emitted',
               MistralMalformed(payload))

\* the keys of the per-call state a translator holds
StateKeys ==
    CASE provider = "codex" -> {id \in CallIds : commandOutputState[id] # <<>>}
      [] provider = "claude" -> {e.id : e \in toolState}
      [] provider = "mistral" ->
            {e.id : e \in toolState} \cup {FunctionKey(e.id) : e \in functionState}
      [] OTHER -> {}

\* ---- a turn's assistant text, delivered in pieces ----

\* pieces of text: the opener of a diff block, of a patch block, a word, a
\* newline, a fence
TextChunks ==
    {<<Fence, "diff", "\n">>, <<Fence, "patch", "\n">>, <<"x">>, <<"\n">>, <<Fence>>}

\* the Claude events that carry or end the text of a turn
ClaudeTurnNative ==
    {ev \in ClaudeEvents(TextChunks) :
        /\ ev.json
        /\ \/ ev.event = "message_stop"
           \/ /\ ev.event = "content_block_delta"
              /\ ev.index = null
              /\ ev.delta.type = "text_delta"
              /\ Truthy(ev.delta.text)}

\* the Mistral payloads that open a turn, carry its text, or end it
MistralTurnNative ==
    {m \in MistralEvents(TextChunks) :
        \/ m.type = "conversation.response.done"
        \/ m.type = "conversation.response.started" /\ m.conversationId # null
        \/ m.type = "message.output.delta" /\ m.content.kind = "string"}

-----------------------------------------------------------------------------
(* Model Manager: the catalog cache                                         *)

\* 5 * 60 * 1000 ms; the clock counts minutes
MODEL_CACHE_TTL_MS == 5

\* the order localeCompare gives the characters used in model identifiers
Collation == <<"a", "b", "c">>
RankOf(ch) == CHOOSE i \in 1..Len(Collation) : Collation[i] = ch

RECURSIVE LocaleBefore(_, _)
\* a.localeCompare(b) < 0
LocaleBefore(a, b) ==
    IF a = <<>> THEN b # <<>>
    ELSE IF b = <<>> THEN FALSE
    ELSE IF Head(a) = Head(b) THEN LocaleBefore(Tail(a), Tail(b))
    ELSE RankOf(Head(a)) < RankOf(Head(b))

RECURSIVE SortedBy(_)
\* Array.from(set).sort((a, b) => a.localeCompare(b))
SortedBy(set) ==
    IF set = {} THEN <<>>
    ELSE LET first == CHOOSE m \in set : \A o \in set \ {m} : LocaleBefore(m, o)
         IN  <<first>> \o SortedBy(set \ {first})

Range(seq) == {seq[i] : i \in 1..Len(seq)}

\* mergeWithConfigModels: config models that are "" are skipped
MergeUnfiltered(cfg, apiModels) ==
    SortedBy(Range(apiModels)
             \cup (IF cfg.configModels = null THEN {} ELSE Range(cfg.configModels[1])))

mergeWithConfigModels(cfg, apiModels) ==
    SortedBy(Range(apiModels)
             \cup (IF cfg.configModels = null THEN {}
                   ELSE {m \in Range(cfg.configModels[1]) : m # <<>>}))

\* `cachedModels && now - cachedModels.fetchedAt < MODEL_CACHE_TTL_MS`
CacheNeverFresh(cache, t) == FALSE

CacheFresh(cache, t) ==
    cache # null /\ t - cache[1].fetchedAt < MODEL_CACHE_TTL_MS

\* `if (!inflightFetch)`: a new fetch is started
StartAlways(inflight) == TRUE

StartsFetch(inflight) == inflight = 0

\* `remote && remote.length ? remote : []`
RemoteOrEmpty(remote) == IF remote # null /\ Len(remote[1]) > 0 THEN remote[1] ELSE <<>>

\* what config.fetchModels() may resolve to: null or a list of identifiers
RemoteResults == {null, Some(<<>>), Some(<<<<"b">>, <<"a">>, <<"b">>>>)}

\* the `.catch` handler of the in-flight promise: the promise is fulfilled
\* with the merge of no remote data, which is cached
CatchRethrows(cfg, t) ==
    [status |-> "rejected", value |-> <<>>, cache |-> null]

\* a failure cached as if it were already out of date
CatchCachesStale(cfg, t) ==
    LET models == mergeWithConfigModels(cfg, <<>>)
    IN  [status |-> "fulfilled", value |-> models,
         cache |-> Some([list |-> models, fetchedAt |-> t - MODEL_CACHE_TTL_MS])]

CatchHandler(cfg, t) ==
    LET models == mergeWithConfigModels(cfg, <<>>)
    IN  [status |-> "fulfilled", value |-> models,
         cache |-> Some([list |-> models, fetchedAt |-> t])]

Callers == {"k1", "k2"}
FetchIds == 1..MaxFetches

NoPromise == [stage |-> "none", status |-> "pending", value |-> <<>>, failed |-> FALSE]
IdleCaller == [pc |-> "idle", p |-> 0, status |-> "pending", result |-> <<>>, via |-> "none"]

\* a result that reports the configured defaults as the selection
DefaultSettings(cfg, model, effort, models) ==
    [model |-> cfg.defaultModel,
     defaultModel |-> cfg.defaultModel,
     availableModels |-> models,
     effort |-> IF cfg.supportsEffort THEN cfg.defaultEffort ELSE null,
     defaultEffort |-> IF cfg.supportsEffort THEN cfg.defaultEffort ELSE null,
     effortOptions |-> IF cfg.supportsEffort THEN cfg.effortOptions ELSE <<>>]

\* getModelSettings' result once getAvailableModels has resolved to `models`
ModelSettings(cfg, model, effort, models) ==
    [model |-> model,
     defaultModel |-> cfg.defaultModel,
     availableModels |-> models,
     effort |-> IF cfg.supportsEffort THEN effort ELSE null,
     defaultEffort |-> IF cfg.supportsEffort THEN cfg.defaultEffort ELSE null,
     effortOptions |-> IF cfg.supportsEffort THEN cfg.effortOptions ELSE <<>>]

\* No continuation of a settled fetch is still to run.  A request handler is
\* started from the event loop, which runs it only once the promise jobs of
\* the previous task have all run.
MicrotasksIdle ==
    /\ \A k \in FetchIds : promises[k].stage # "cached"
    /\ \A c \in Callers :
          callers[c].pc = "waiting" => promises[callers[c].p].stage = "fetching"

\* getModelSettings up to its await of getAvailableModels, called while the
\* selection is `model`, `effort`
AwaitModels(c, model, effort) ==
    /\ IF CacheFresh(cachedModels, now)
       THEN /\ callers' = [callers EXCEPT ![c] =
                  [pc |-> "done", p |-> 0, status |-> "fulfilled",
                   result |-> Some(ModelSettings(config, model, effort,
                                                 cachedModels[1].list)),
                   via |-> "cache"]]
            /\ UNCHANGED <<inflightFetch, promises, fetchCount>>
       ELSE IF StartsFetch(inflightFetch)
       THEN /\ fetchCount < MaxFetches
            /\ fetchCount' = fetchCount + 1
            /\ inflightFetch' = fetchCount + 1
            /\ promises' = [promises EXCEPT ![fetchCount + 1] =
                                [NoPromise EXCEPT !.stage = "fetching"]]
            /\ callers' = [callers EXCEPT ![c] =
                  [IdleCaller EXCEPT !.pc = "waiting", !.p = fetchCount + 1]]
       ELSE /\ callers' = [callers EXCEPT ![c] =
                  [IdleCaller EXCEPT !.pc = "waiting", !.p = inflightFetch]]
            /\ UNCHANGED <<inflightFetch, promises, fetchCount>>
    /\ UNCHANGED <<cachedModels, now>>

\* GET /api/model: a getModelSettings call, up to its await
GetModelSettings(c) ==
    /\ MicrotasksIdle
    /\ callers[c].pc = "idle"
    /\ AwaitModels(c, activeModel, activeEffort)
    /\ UNCHANGED <<runs, streamVars, toolVars, config, selectionVars, backendVars, moreVars>>

\* config.fetchModels() resolves: the result is merged and cached
FetchResolves(k, remote) ==
    /\ promises[k].stage = "fetching"
    /\ LET models == mergeWithConfigModels(config, RemoteOrEmpty(remote))
       IN  /\ cachedModels' = Some([list |-> models, fetchedAt |-> now])
           /\ promises' = [promises EXCEPT ![k] =
                  [stage |-> "cached", status |-> "fulfilled", value |-> models,
                   failed |-> FALSE]]
    /\ UNCHANGED <<inflightFetch, fetchCount, callers, now>>
    /\ UNCHANGED <<runs, streamVars, toolVars, config, selectionVars, backendVars, moreVars>>

\* config.fetchModels() rejects: the `.catch` handler runs
FetchRejects(k) ==
    /\ promises[k].stage = "fetching"
    /\ LET h == CatchHandler(config, now)
       IN  /\ cachedModels' = IF h.cache = null THEN cachedModels ELSE h.cache
           /\ promises' = [promises EXCEPT ![k] =
                  [stage |-> "cached", status |-> h.status, value |-> h.value,
                   failed |-> TRUE]]
    /\ UNCHANGED <<inflightFetch, fetchCount, callers, now>>
    /\ UNCHANGED <<runs, streamVars, toolVars, config, selectionVars, backendVars, moreVars>>

\* the `.finally` handler: inflightFetch = null, and the promise settles
FetchFinally(k) ==
    /\ promises[k].stage = "cached"
    /\ inflightFetch' = 0
    /\ promises' = [promises EXCEPT ![k].stage = "settled"]
    /\ UNCHANGED <<cachedModels, fetchCount, callers, now>>
    /\ UNCHANGED <<runs, streamVars, toolVars, config, selectionVars, backendVars, moreVars>>

\* a getModelSettings call resumes after `await getAvailableModels()`
SettingsResume(c) ==
    /\ callers[c].pc = "waiting"
    /\ promises[callers[c].p].stage = "settled"
    /\ LET pr == promises[callers[c].p]
       IN  callers' = [callers EXCEPT ![c] =
              [pc |-> "done", p |-> callers[c].p, status |-> pr.status,
               result |-> IF pr.status = "fulfilled"
                          THEN Some(ModelSettings(config, activeModel, activeEffort,
                                                  pr.value))
                          ELSE null,
               via |-> "fetch"]]
    /\ UNCHANGED <<cachedModels, inflightFetch, promises, fetchCount, now>>
    /\ UNCHANGED <<runs, streamVars, toolVars, config, selectionVars, backendVars, moreVars>>

\* the response has been sent; the caller may call again
SettingsReturn(c) ==
    /\ callers[c].pc = "done"
    /\ callers' = [callers EXCEPT ![c] = IdleCaller]
    /\ UNCHANGED <<cachedModels, inflightFetch, promises, fetchCount, now>>
    /\ UNCHANGED <<runs, streamVars, toolVars, config, selectionVars, backendVars, moreVars>>

\* time passes
Tick ==
    /\ now < MaxNow
    /\ now' = now + 1
    /\ UNCHANGED <<cachedModels, inflightFetch, promises, fetchCount, callers>>
    /\ UNCHANGED <<runs, streamVars, toolVars, config, selectionVars, backendVars, moreVars>>

-----------------------------------------------------------------------------
(* Model Manager: the active selection                                      *)

Minimal == <<"m", "i", "n", "i", "m", "a", "l">>
Low == <<"l", "o", "w">>
Medium == <<"m", "e", "d", "i", "u", "m">>
High == <<"h", "i", "g", "h">>
XHigh == <<"x", "h", "i", "g", "h">>

\* EFFORT_OPTIONS
EFFORT_OPTIONS == <<Minimal, Low, Medium, High, XHigh>>

\* the values a payload field may carry: the field is missing, or it holds
\* undefined, null, a value that is not a string, or a string
Missing == [kind |-> "missing", s |-> <<>>]
NonStrings ==
    {[kind |-> k, s |-> <<>>] : k \in {"undefined", "null", "number", "boolean", "object"}}
Str(s) == [kind |-> "string", s |-> s]

ModelInputs ==
    {<<>>, <<" ">>, <<"a">>, <<" ", "z", " ">>, <<"a", " ", "z">>}
EffortInputs ==
    {<<>>, <<" ">>, Low, <<"H", "I", "G", "H">>, <<" ", "l", "o", "w", " ">>,
     <<"u", "l", "t", "r", "a">>, <<"l", "o">>}

\* ModelSelectionPayload; `other` is a field the function does not know
Payloads ==
    [model : {Missing} \cup {v \in NonStrings : v.kind \in {"undefined", "null", "number"}}
                       \cup {Str(s) : s \in ModelInputs},
     effort : {Missing} \cup NonStrings \cup {Str(s) : s \in EffortInputs},
     other : {Missing}]
    \cup [model : {Missing, [kind |-> "number", s |-> <<>>]},
          effort : {Missing, Str(<<"u", "l", "t", "r", "a">>)},
          other : {[kind |-> "number", s |-> <<>>]}]

\* `"model" in payload`
HasField(v) == v.kind # "missing"
\* `typeof model === "string"`
IsString(v) == v.kind = "string"

\* the model branch of updateModelSelection: `trimmed || null`
ModelKeepsBlanks(model, v) ==
    IF HasField(v) /\ ~IsString(v) THEN null
    ELSE IF IsString(v) THEN (IF v.s = <<>> THEN null ELSE Some(v.s))
    ELSE model

ModelIgnoresNonStrings(model, v) ==
    IF IsString(v)
    THEN LET trimmed == Trim(v.s) IN IF trimmed = <<>> THEN null ELSE Some(trimmed)
    ELSE model

NextModel(model, v) ==
    IF HasField(v) /\ ~IsString(v) THEN null
    ELSE IF IsString(v)
    THEN LET trimmed == Trim(v.s) IN IF trimmed = <<>> THEN null ELSE Some(trimmed)
    ELSE model

\* the effort branch of updateModelSelection
EffortClearsInvalid(cfg, effort, v) ==
    IF ~cfg.supportsEffort THEN effort
    ELSE IF HasField(v) /\ ~IsString(v) THEN null
    ELSE IF IsString(v)
    THEN LET normalized == ToLowerCase(Trim(v.s))
         IN  IF normalized \in Range(cfg.effortOptions) THEN Some(normalized) ELSE null
    ELSE effort

EffortIgnoresNonStrings(cfg, effort, v) ==
    IF ~cfg.supportsEffort THEN effort
    ELSE IF IsString(v)
    THEN LET normalized == ToLowerCase(Trim(v.s))
         IN  IF normalized = <<>> THEN null
             ELSE IF normalized \in Range(cfg.effortOptions) THEN Some(normalized)
             ELSE effort
    ELSE effort

NextEffort(cfg, effort, v) ==
    IF ~cfg.supportsEffort THEN effort
    ELSE IF HasField(v) /\ ~IsString(v) THEN null
    ELSE IF IsString(v)
    THEN LET normalized == ToLowerCase(Trim(v.s))
         IN  IF normalized = <<>> THEN null
             ELSE IF normalized \in Range(cfg.effortOptions) THEN Some(normalized)
             ELSE effort
    ELSE effort

\* codex/models.ts, updateModelSelection: the model branch
CodexNextModel(model, v) ==
    IF HasField(v) /\ ~IsString(v) THEN null
    ELSE IF IsString(v)
    THEN LET requested == Trim(v.s) IN IF requested = <<>> THEN null ELSE Some(requested)
    ELSE model

\* codex/models.ts, updateModelSelection: the effort branch
CodexNextEffort(effort, v) ==
    IF v.kind = "null" \/ (IsString(v) /\ v.s = <<>>) THEN null
    ELSE IF IsString(v)
    THEN LET normalized == ToLowerCase(Trim(v.s))
         IN  IF normalized \in Range(EFFORT_OPTIONS) THEN Some(normalized) ELSE effort
    ELSE effort

\* updateModelSelection(payload): the payload is given to the shared manager
\* and to the Codex adapter's own module
ApplySelection(payload) ==
    /\ activeModel' = NextModel(activeModel, payload.model)
    /\ activeEffort' = NextEffort(config, activeEffort, payload.effort)
    /\ lastCall' = Some(payload)
    /\ prevSelection' = [model |-> activeModel, effort |-> activeEffort]
    /\ codexSelection' = [model |-> CodexNextModel(codexSelection.model, payload.model),
                          effort |-> CodexNextEffort(codexSelection.effort, payload.effort)]
    /\ codexPrev' = codexSelection

UpdateModelSelection(payload) ==
    /\ ApplySelection(payload)
    /\ UNCHANGED <<runs, streamVars, toolVars, config, catalogVars, backendVars, moreVars>>

\* POST /api/model: `backend.updateModelSelection(req.body)` and then
\* `await backend.getModelSettings()`, up to that await.  The update is in
\* force for every call that is still waiting for the catalog.
PostModel(c, payload) ==
    /\ MicrotasksIdle
    /\ callers[c].pc = "idle"
    /\ ApplySelection(payload)
    /\ AwaitModels(c, activeModel', activeEffort')
    /\ applied' = [d \in Callers |->
                     IF d = c
                     THEN Some([model |-> activeModel', effort |-> activeEffort',
                                later |-> FALSE])
                     ELSE IF applied[d] # null /\ callers[d].pc = "waiting"
                     THEN Some([applied[d][1] EXCEPT !.later = TRUE])
                     ELSE applied[d]]
    /\ UNCHANGED <<runs, streamVars, toolVars, config, backendVars, notRequests>>

\* `res.json(settings)`: the response has been sent; the caller may call again
PostReturn(c) ==
    /\ callers[c].pc = "done"
    /\ callers' = [callers EXCEPT ![c] = IdleCaller]
    /\ applied' = [applied EXCEPT ![c] = null]
    /\ UNCHANGED <<cachedModels, inflightFetch, promises, fetchCount, now>>
    /\ UNCHANGED <<runs, streamVars, toolVars, config, selectionVars, backendVars,
                   notRequests>>

-----------------------------------------------------------------------------
(* Backend objects and the adapter modules behind them                      *)

InstanceIds == {"i1", "i2", "i3"}

\* what each adapter's module creates its state with: the Codex module has
\* efforts, the Claude and Mistral managers are created with supportsEffort:
\* false
AdapterConfig(p) ==
    IF p = "codex"
    THEN [defaultModel |-> null, supportsEffort |-> TRUE,
          defaultEffort |-> Some(Medium), effortOptions |-> EFFORT_OPTIONS]
    ELSE [defaultModel |-> null, supportsEffort |-> FALSE,
          defaultEffort |-> null, effortOptions |-> <<>>]

\* the module-level state of an adapter once its module is loaded
ModuleLoaded(p) ==
    [model |-> AdapterConfig(p).defaultModel,
     effort |-> AdapterConfig(p).defaultEffort,
     cache |-> null]

\* one module's state behind every adapter
ModuleShared(p) == "codex"

\* the module whose functions an adapter's factory puts into its objects:
\* each adapter imports its own (codex/models, mistral/models, the manager at
\* the end of the Claude module)
ModuleOf(p) == p

\* createCodexBackend / createClaudeBackend / createMistralBackend: the
\* object returned holds the module's updateModelSelection and getModelSettings
CreateBackend(i, p) ==
    /\ instances[i] = null
    /\ instances' = [instances EXCEPT ![i] = Some(p)]
    /\ UNCHANGED <<modules, lastVia>>
    /\ UNCHANGED <<runs, streamVars, toolVars, config, catalogVars, selectionVars,
                   backendVars, notInstances>>

\* backend.updateModelSelection(payload) through the object `i`
UpdateVia(i, payload) ==
    /\ instances[i] # null
    /\ LET p == ModuleOf(instances[i][1])
           m == modules[p]
       IN  modules' = [modules EXCEPT ![p] =
               [@ EXCEPT !.model = IF p = "codex"
                                   THEN CodexNextModel(m.model, payload.model)
                                   ELSE NextModel(m.model, payload.model),
                         !.effort = IF p = "codex"
                                    THEN CodexNextEffort(m.effort, payload.effort)
                                    ELSE NextEffort(AdapterConfig(p), m.effort,
                                                    payload.effort)]]
    /\ lastVia' = i
    /\ UNCHANGED instances
    /\ UNCHANGED <<runs, streamVars, toolVars, config, catalogVars, selectionVars,
                   backendVars, notInstances>>

\* backend.getModelSettings() through the object `i`, with nothing cached:
\* the catalog is fetched and cached (the fetch is taken as one step)
FetchVia(i, list) ==
    /\ instances[i] # null
    /\ modules[ModuleOf(instances[i][1])].cache = null
    /\ modules' = [modules EXCEPT ![ModuleOf(instances[i][1])].cache = Some(list)]
    /\ lastVia' = i
    /\ UNCHANGED instances
    /\ UNCHANGED <<runs, streamVars, toolVars, config, catalogVars, selectionVars,
                   backendVars, notInstances>>

\* the model, effort and cached catalog observed through a Backend object
SeenThrough(ins, mods, i) == mods[ins[i][1]]

-----------------------------------------------------------------------------
(* The server process and its Backend (server.ts, backends/index.ts)        *)

CodexId == <<"c", "o", "d", "e", "x">>
ClaudeId == <<"c", "l", "a", "u", "d", "e">>
MistralId == <<"m", "i", "s", "t", "r", "a", "l">>

\* the BackendId a name is spelled with
IdText(name) ==
    CASE name = "codex" -> CodexId
      [] name = "claude" -> ClaudeId
      [] name = "mistral" -> MistralId

\* values of process.env.LUSKUI_BACKEND once hydrateEnv() has run
EnvValues ==
    {null, Some(<<>>), Some(CodexId), Some(ClaudeId), Some(MistralId),
     Some(<<"C", "l", "a", "u", "d", "e">>), Some(<<"g", "p", "t">>)}

RequestKinds == {"stream", "getModel", "postModel"}

\* getBackend: (process.env.LUSKUI_BACKEND || "codex").toLowerCase(), then
\* the switch
getBackend(env) ==
    LET requested == ToLowerCase(IF env # null /\ env[1] # <<>> THEN env[1] ELSE CodexId)
        known == {a \in {"codex", "claude", "mistral"} : IdText(a) = requested}
    IN  IF known # {}
        THEN [ok |-> TRUE, name |-> CHOOSE a \in known : TRUE]
        ELSE [ok |-> FALSE, error |-> <<"Unsupported backend: ">> \o requested]

\* a handler that asked getBackend again on every request
ServingRequested(b, env) ==
    IF getBackend(env).ok THEN getBackend(env).name ELSE b[1]

\* the handlers use the module's `backend` constant
ServingBackend(b, env) == b[1]

\* server.ts is loaded: `const backend = getBackend({...})`; a throw ends
\* the process before app.listen
Boot ==
    /\ ppc = "boot"
    /\ envAtStart' = envBackend
    /\ LET r == getBackend(envBackend)
       IN  IF r.ok
           THEN backend' = Some(r.name) /\ ppc' = "listening" /\ UNCHANGED startError
           ELSE startError' = Some(r.error) /\ ppc' = "crashed" /\ UNCHANGED backend
    /\ UNCHANGED <<envBackend, served>>
    /\ UNCHANGED <<runs, streamVars, toolVars, config, catalogVars, selectionVars,
                   backendVars, notProcess>>

\* the environment variable is changed while the server runs
SetEnv(v) ==
    /\ ppc = "listening"
    /\ v # envBackend
    /\ envBackend' = v
    /\ UNCHANGED <<ppc, backend, startError, envAtStart, served>>
    /\ UNCHANGED <<runs, streamVars, toolVars, config, catalogVars, selectionVars,
                   backendVars, notProcess>>

\* GET /api/stream/:id, GET /api/model or POST /api/model reaches its call
\* of backend.streamRun, backend.getModelSettings or
\* backend.updateModelSelection
Serve(kind) ==
    /\ ppc = "listening"
    /\ served' = Some([kind |-> kind, by |-> ServingBackend(backend, envBackend),
                       env |-> envBackend])
    /\ UNCHANGED <<envBackend, ppc, backend, startError, envAtStart>>
    /\ UNCHANGED <<runs, streamVars, toolVars, config, catalogVars, selectionVars,
                   backendVars, notProcess>>

-----------------------------------------------------------------------------
(* The Claude adapter's key resolution (backends/claude/auth.ts)            *)

\* `5 * 60 * 1000` ms, in minutes
CLAUDE_OAUTH_CACHE_MS == 5

AuthCallers == {"a", "b"}
OauthTokens == {"t1", "t2"}
\* CODEXUI_CLAUDE_OAUTH_CACHE_MS: unset, or one of these strings (minutes)
TtlSettings == {"unset", "1", "0", "-1", "invalid"}

\* the key an API-key variable of the environment holds
EnvKey == <<"env">>
\* the raw_key the k-th minting request is answered with
KeyOf(k) == <<"minted", k>>

NoCall == [pc |-> "idle", how |-> "none", mint |-> 0, token |-> null, out |-> null]

\* Number(process.env.CODEXUI_CLAUDE_OAUTH_CACHE_MS || 5 * 60 * 1000):
\* <<>> stands for NaN
TtlMs(setting) ==
    CASE setting = "unset" -> Some(CLAUDE_OAUTH_CACHE_MS)
      [] setting = "1" -> Some(1)
      [] setting = "0" -> Some(0)
      [] setting = "-1" -> Some(0 - 1)
      [] OTHER -> null

\* shouldReuseCachedKey
shouldReuseCachedKey(cache, oauthToken, setting, t) ==
    IF cache = null \/ cache[1].oauthToken # oauthToken THEN FALSE
    ELSE LET ttlMs == TtlMs(setting)
         IN  IF ttlMs = null \/ ttlMs[1] <= 0 THEN FALSE
             ELSE t - cache[1].fetchedAt < ttlMs[1]

\* a minting request is sent whether or not one is in flight
JoinsNever(inflight) == FALSE

\* `if (!inflightRequest)` is not taken: the call returns the promise in flight
JoinsInflight(inflight) == inflight # 0

\* a failed request leaves its promise behind
FinallyKeepsFailed(k, status) == IF status = "rejected" THEN k ELSE 0

\* .finally(() => { inflightRequest = null; })
FinallyClears(k, status) == 0

\* No continuation of a settled minting request is still to run.  A caller
\* (streamRun, from a request handler) is started from the event loop, which
\* runs it only once the promise jobs of the previous task have all run.
AuthIdle ==
    /\ \A k \in 1..Len(mints) : mints[k].stage \in {"fetching", "final"}
    /\ \A c \in AuthCallers :
          authCalls[c].pc = "waiting" => mints[authCalls[c].mint].stage = "fetching"

\* resolveClaudeApiKey(), up to its return (the promise it gives when it
\* does not return a value at once)
ResolveClaudeApiKey(c) ==
    /\ AuthIdle
    /\ authCalls[c].pc = "idle"
    /\ LET oauthToken == authEnv.token
           doneWith(how, out) ==
               /\ authCalls' = [authCalls EXCEPT ![c] =
                      [pc |-> "done", how |-> how, mint |-> 0,
                       token |-> oauthToken, out |-> Some(out)]]
               /\ UNCHANGED <<inflightRequest, mints>>
       IN  IF authEnv.apiKey # null
           THEN doneWith("apiKey", [kind |-> "key", key |-> authEnv.apiKey[1]])
           ELSE IF oauthToken = null
           THEN doneWith("noToken", [kind |-> "null"])
           ELSE IF shouldReuseCachedKey(cachedKey, oauthToken[1], authEnv.ttl, now)
           THEN doneWith("cached", [kind |-> "key", key |-> cachedKey[1].apiKey])
           ELSE IF JoinsInflight(inflightRequest)
           THEN /\ authCalls' = [authCalls EXCEPT ![c] =
                       [pc |-> "waiting", how |-> "joined", mint |-> inflightRequest,
                        token |-> oauthToken, out |-> null]]
                /\ UNCHANGED <<inflightRequest, mints>>
           ELSE /\ Len(mints) < MaxMints
                /\ mints' = Append(mints, [token |-> oauthToken[1], status |-> "pending",
                                           stage |-> "fetching"])
                /\ inflightRequest' = Len(mints) + 1
                /\ authCalls' = [authCalls EXCEPT ![c] =
                       [pc |-> "waiting", how |-> "minted", mint |-> Len(mints) + 1,
                        token |-> oauthToken, out |-> null]]
    /\ UNCHANGED <<authEnv, cachedKey>>
    /\ UNCHANGED <<runs, streamVars, toolVars, config, catalogVars, selectionVars,
                   backendVars, notAuth>>

\* the k-th request is answered with a key: mintApiKey returns it, and the
\* async function stores `{ oauthToken, apiKey: minted, fetchedAt: Date.now() }`
MintResolves(k) ==
    /\ k \in 1..Len(mints)
    /\ mints[k].stage = "fetching"
    /\ cachedKey' = Some([oauthToken |-> mints[k].token, apiKey |-> KeyOf(k),
                          fetchedAt |-> now])
    /\ mints' = [mints EXCEPT ![k].status = "resolved", ![k].stage = "settled"]
    /\ UNCHANGED <<authEnv, inflightRequest, authCalls>>
    /\ UNCHANGED <<runs, streamVars, toolVars, config, catalogVars, selectionVars,
                   backendVars, notAuth>>

\* the k-th request fails (fetch rejects, the response is not ok, or it
\* holds no key): mintApiKey throws
MintRejects(k) ==
    /\ k \in 1..Len(mints)
    /\ mints[k].stage = "fetching"
    /\ mints' = [mints EXCEPT ![k].status = "rejected", ![k].stage = "settled"]
    /\ UNCHANGED <<authEnv, cachedKey, inflightRequest, authCalls>>
    /\ UNCHANGED <<runs, streamVars, toolVars, config, catalogVars, selectionVars,
                   backendVars, notAuth>>

\* the .finally callback of the k-th request
MintFinally(k) ==
    /\ k \in 1..Len(mints)
    /\ mints[k].stage = "settled"
    /\ inflightRequest' = FinallyClears(k, mints[k].status)
    /\ mints' = [mints EXCEPT ![k].stage = "final"]
    /\ UNCHANGED <<authEnv, cachedKey, authCalls>>
    /\ UNCHANGED <<runs, streamVars, toolVars, config, catalogVars, selectionVars,
                   backendVars, notAuth>>

\* a caller's `await resolveClaudeApiKey()` settles with its promise
AuthResume(c) ==
    /\ authCalls[c].pc = "waiting"
    /\ mints[authCalls[c].mint].stage = "final"
    /\ LET k == authCalls[c].mint
       IN  authCalls' = [authCalls EXCEPT ![c].pc = "done", ![c].out =
               Some(IF mints[k].status = "resolved"
                    THEN [kind |-> "key", key |-> KeyOf(k)]
                    ELSE [kind |-> "error", of |-> k])]
    /\ UNCHANGED <<authEnv, cachedKey, inflightRequest, mints>>
    /\ UNCHANGED <<runs, streamVars, toolVars, config, catalogVars, selectionVars,
                   backendVars, notAuth>>

\* the caller has used what the call gave and is gone
AuthReturn(c) ==
    /\ authCalls[c].pc = "done"
    /\ authCalls' = [authCalls EXCEPT ![c] = NoCall]
    /\ UNCHANGED <<authEnv, cachedKey, inflightRequest, mints>>
    /\ UNCHANGED <<runs, streamVars, toolVars, config, catalogVars, selectionVars,
                   backendVars, notAuth>>

\* time passes; it is let pass while a cached key is younger than the
\* longest TTL, since Date.now() is only compared with cachedKey.fetchedAt
AgeTick ==
    /\ cachedKey # null
    /\ now - cachedKey[1].fetchedAt < CLAUDE_OAUTH_CACHE_MS
    /\ now < MaxNow
    /\ now' = now + 1
    /\ UNCHANGED <<cachedModels, inflightFetch, promises, fetchCount, callers>>
    /\ UNCHANGED authVars
    /\ UNCHANGED <<runs, streamVars, toolVars, config, selectionVars, backendVars,
                   notAuth>>

\* the OAuth token of the environment is replaced
SetToken(t) ==
    /\ t # authEnv.token
    /\ authEnv' = [authEnv EXCEPT !.token = t]
    /\ UNCHANGED <<cachedKey, inflightRequest, mints, authCalls>>
    /\ UNCHANGED <<runs, streamVars, toolVars, config, catalogVars, selectionVars,
                   backendVars, notAuth>>

-----------------------------------------------------------------------------
(* Construction                                                             *)

\* createModelManager(config): the configurations the managers are given
EffortConfig ==
    [defaultModel |-> null, supportsEffort |-> TRUE, defaultEffort |-> Some(Medium),
     effortOptions |-> EFFORT_OPTIONS, configModels |-> null]

SelectionConfigs ==
    {EffortConfig,
     [EffortConfig EXCEPT !.defaultModel = Some(<<"a">>), !.defaultEffort = null],
     [EffortConfig EXCEPT !.supportsEffort = FALSE, !.defaultEffort = null,
                          !.effortOptions = <<>>]}

CatalogConfigs ==
    {EffortConfig,
     [EffortConfig EXCEPT !.configModels = Some(<<>>)],
     [EffortConfig EXCEPT !.configModels = Some(<<<<"c">>, <<>>, <<"a">>>>)]}

InitRuns == runs = NoRuns

InitStream ==
    /\ pc = "idle"
    /\ streamId = ""
    /\ clientClosed = FALSE
    /\ frames = <<>>
    /\ endCalls = 0
    /\ returnCalls = 0
    /\ produced = <<>>
    /\ failure = null
    /\ seqFailed = FALSE
    /\ lateWrites = 0
    /\ disconnectedAt = "never"

InitTool ==
    /\ commandOutputState = NoCommandState
    /\ aggregated = [id \in CallIds |-> <<>>]
    /\ stdoutCat = [id \in CallIds |-> <<>>]
    /\ prefixStable = [id \in CallIds |-> TRUE]
    /\ chunkCount = [id \in CallIds |-> 0]
    /\ lastLength = [id \in CallIds |-> 0]
    /\ longest = [id \in CallIds |-> 0]

\* createModelManager: the manager's state once constructed with `cfg`
InitManagerWith(cfg, cache) ==
    /\ config = cfg
    /\ activeModel = cfg.defaultModel
    /\ activeEffort = (IF cfg.supportsEffort THEN cfg.defaultEffort ELSE null)
    /\ cachedModels = cache
    /\ inflightFetch = 0
    /\ promises = [k \in FetchIds |-> NoPromise]
    /\ fetchCount = 0
    /\ callers = [c \in Callers |-> IdleCaller]
    /\ now = 0
    /\ lastCall = null
    /\ prevSelection = [model |-> activeModel, effort |-> activeEffort]

InitManager(cfg) == InitManagerWith(cfg, null)

\* codex/models.ts: activeModel = DEFAULT_MODEL, activeEffort = DEFAULT_EFFORT
InitCodexModels(defaultModel, defaultEffort) ==
    /\ codexSelection = [model |-> defaultModel, effort |-> defaultEffort]
    /\ codexPrev = codexSelection

\* a backend created with this configuration and environment, before
\* streamRun is called
InitBackendWith(p, net, cred) ==
    /\ provider = p
    /\ networkAccessEnabled = net
    /\ credential = cred
    /\ bpc = "idle"
    /\ opens = 0
    /\ thrown = null
    /\ emitted = <<>>
    /\ yielded = FALSE
    /\ lastSignal = null
    /\ passedThrough = FALSE
    /\ messageBuffer = <<>>
    /\ toolState = {}
    /\ functionState = {}
    /\ conversationId = null
    /\ turnText = <<>>
    /\ turnEnds = 0
    /\ turnClosed = FALSE

\* server.ts passes networkAccessEnabled: true
InitBackend == InitBackendWith("codex", TRUE, "key")

\* the process of the other components: started without LUSKUI_BACKEND
InitListening ==
    /\ envBackend = null
    /\ ppc = "listening"
    /\ backend = Some("codex")
    /\ startError = null
    /\ envAtStart = null
    /\ served = null

\* the Run Store's callers have done nothing
InitCallers ==
    /\ life = [id \in RunIds |-> "never"]
    /\ streaming = {}
    /\ lastOp = NoOp
    /\ sessions = [h \in SessionIds |-> NoSession]
    /\ applied = [c \in Callers |-> null]

\* claude/auth.ts once loaded: `cachedKey = null`, `inflightRequest = null`
InitAuthWith(env) ==
    /\ authEnv = env
    /\ cachedKey = null
    /\ inflightRequest = 0
    /\ mints = <<>>
    /\ authCalls = [c \in AuthCallers |-> NoCall]

InitAuth == InitAuthWith([apiKey |-> Some(EnvKey), token |-> null, ttl |-> "unset"])

\* no Backend object has been made; the adapters' modules are loaded
InitInstances ==
    /\ instances = [i \in InstanceIds |-> null]
    /\ modules = [p \in Adapters |-> ModuleLoaded(p)]
    /\ lastVia = ""

\* nothing observed yet
InitObserver ==
    /\ reports = {}
    /\ callLog = {}
    /\ openCalls = {}
    /\ skipped = FALSE

InitMore == InitListening /\ InitCallers /\ InitAuth /\ InitObserver /\ InitInstances

-----------------------------------------------------------------------------
(* Specifications                                                           *)

Init ==
    /\ InitRuns /\ InitStream /\ InitTool /\ InitManager(EffortConfig)
    /\ InitCodexModels(EffortConfig.defaultModel, EffortConfig.defaultEffort)
    /\ InitBackend /\ InitMore

NextStream ==
    \/ \E prompt \in Prompts : CreateRun(prompt)
    \/ \E id \in RunIds : OpenStream(id)
    \/ StreamRunResolves
    \/ \E msg \in ErrorMessages : StreamRunFails(msg)
    \/ \E event \in BackendEvents : NextYields(event)
    \/ NextDone
    \/ \E msg \in ErrorMessages : NextFails(msg)
    \/ ReturnResolves
    \/ \E msg \in ErrorMessages : ReturnFails(msg)
    \/ ClientClose

SpecStream == Init /\ [][NextStream]_vars

\* one stream request for a run that exists, whose Backend is live: each call
\* the handler awaits (streamRun, next, return) settles, and the handler's
\* continuation then runs.  What the events carry does not matter here.
PumpEvents == {[type |-> "status"], [type |-> "diff", patch |-> <<"p">>]}

InitPump ==
    /\ runs = [NoRuns EXCEPT ![BackendRun] = Some(NewEntry(<<"h", "i">>))]
    /\ InitStream /\ InitTool /\ InitManager(EffortConfig)
    /\ InitCodexModels(EffortConfig.defaultModel, EffortConfig.defaultEffort)
    /\ InitBackend /\ InitMore

StreamRunSettles == StreamRunResolves \/ \E msg \in ErrorMessages : StreamRunFails(msg)

NextSettles ==
    \/ \E event \in PumpEvents : NextYields(event)
    \/ NextDone
    \/ \E msg \in ErrorMessages : NextFails(msg)

ReturnSettles == ReturnResolves \/ \E msg \in ErrorMessages : ReturnFails(msg)

NextPump ==
    \/ \E id \in RunIds : OpenStream(id)
    \/ StreamRunResolves
    \/ \E msg \in ErrorMessages : StreamRunFails(msg)
    \/ \E event \in PumpEvents : NextYields(event)
    \/ NextDone
    \/ \E msg \in ErrorMessages : NextFails(msg)
    \/ ReturnResolves
    \/ \E msg \in ErrorMessages : ReturnFails(msg)
    \/ ClientClose

SpecPump ==
    /\ InitPump /\ [][NextPump]_vars
    /\ WF_vars(StreamRunSettles) /\ WF_vars(NextSettles) /\ WF_vars(ReturnSettles)

NextTool ==
    \E eventType \in ItemEventTypes, item \in CommandItems : CommandEvent(eventType, item)

SpecTool == Init /\ [][NextTool]_vars

InitCatalog ==
    /\ InitRuns /\ InitStream /\ InitTool /\ InitBackend /\ InitMore
    /\ \E cfg \in CatalogConfigs :
          InitManager(cfg) /\ InitCodexModels(cfg.defaultModel, cfg.defaultEffort)

NextCatalog ==
    \/ \E c \in Callers : GetModelSettings(c)
    \/ \E k \in FetchIds, remote \in RemoteResults : FetchResolves(k, remote)
    \/ \E k \in FetchIds : FetchRejects(k)
    \/ \E k \in FetchIds : FetchFinally(k)
    \/ \E c \in Callers : SettingsResume(c)
    \/ \E c \in Callers : SettingsReturn(c)
    \/ Tick

SpecCatalog == InitCatalog /\ [][NextCatalog]_vars

\* updateModelSelection is called on a manager whose catalog has not been
\* fetched yet, or has been
SelectionCaches == {null, Some([list |-> <<<<"a">>, <<"b">>>>, fetchedAt |-> 0])}

InitSelection ==
    /\ InitRuns /\ InitStream /\ InitTool /\ InitBackend /\ InitMore
    /\ \E cfg \in SelectionConfigs, cache \in SelectionCaches :
          /\ InitManagerWith(cfg, cache)
          /\ InitCodexModels(cfg.defaultModel, cfg.defaultEffort)

NextSelection == \E payload \in Payloads : UpdateModelSelection(payload)

SpecSelection == InitSelection /\ [][NextSelection]_vars

\* what POST /api/model is sent
PostPayloads ==
    {[model |-> Str(<<"a">>), effort |-> Missing, other |-> Missing],
     [model |-> Str(<<"b">>), effort |-> Missing, other |-> Missing],
     [model |-> Missing, effort |-> Str(High), other |-> Missing]}

InitSettings ==
    /\ InitRuns /\ InitStream /\ InitTool /\ InitBackend /\ InitMore
    /\ InitManager(EffortConfig)
    /\ InitCodexModels(EffortConfig.defaultModel, EffortConfig.defaultEffort)

NextSettings ==
    \/ \E c \in Callers : GetModelSettings(c)
    \/ \E c \in Callers, payload \in PostPayloads : PostModel(c, payload)
    \/ \E k \in FetchIds, remote \in RemoteResults : FetchResolves(k, remote)
    \/ \E k \in FetchIds : FetchRejects(k)
    \/ \E k \in FetchIds : FetchFinally(k)
    \/ \E c \in Callers : SettingsResume(c)
    \/ \E c \in Callers : PostReturn(c)
    \/ Tick

SpecSettings == InitSettings /\ [][NextSettings]_vars

\* a run exists (the stream handler of server.ts logs to it); the backend
\* is any of the translators, with any configuration and environment.
\* Only the Claude adapter's key resolution can reject.
InitBackendSpec ==
    /\ runs = [NoRuns EXCEPT ![BackendRun] = Some(NewEntry(<<"h", "i">>))]
    /\ InitStream /\ InitTool /\ InitManager(EffortConfig) /\ InitMore
    /\ InitCodexModels(EffortConfig.defaultModel, EffortConfig.defaultEffort)
    /\ \E p \in Providers, net \in BOOLEAN, cred \in Credentials :
          /\ p = "server" => net /\ cred = "key"
          /\ p \in {"codex", "mistral"} => cred # "rejects"
          /\ InitBackendWith(p, net, cred)

NextBackend ==
    \/ StreamRun
    \/ ResolveApiKey
    \/ \E ok \in BOOLEAN : StreamOpens(ok)
    \/ FirstNext
    \/ \E ev \in CodexNative : CodexEvent(ev)
    \/ \E ev \in CodexNative : ServerEvent(ev)
    \/ \E ev \in ClaudeNative : ClaudeEvent(ev)
    \/ \E payload \in MistralOthers : MistralEvent(payload, NoResult, TRUE)
    \/ \E payload \in MistralCalls, result \in ToolResults, ok \in BOOLEAN :
          MistralEvent(payload, result, ok)
    \/ NativeEnds

SpecBackend == InitBackendSpec /\ [][NextBackend]_vars

\* a Claude or Mistral run whose provider delivers assistant text
InitTurn ==
    /\ runs = [NoRuns EXCEPT ![BackendRun] = Some(NewEntry(<<"h", "i">>))]
    /\ InitStream /\ InitTool /\ InitManager(EffortConfig) /\ InitMore
    /\ InitCodexModels(EffortConfig.defaultModel, EffortConfig.defaultEffort)
    /\ \E p \in {"claude", "mistral"} : InitBackendWith(p, TRUE, "key")

NextTurn ==
    \/ StreamRun
    \/ ResolveApiKey
    \/ \E ok \in BOOLEAN : StreamOpens(ok)
    \/ FirstNext
    \/ \E ev \in ClaudeTurnNative : ClaudeEvent(ev)
    \/ \E payload \in MistralTurnNative : MistralEvent(payload, NoResult, TRUE)
    \/ NativeEnds

SpecTurn == InitTurn /\ [][NextTurn]_vars

\* a run of one of the three translators whose provider announces tool calls
InitCalls ==
    /\ runs = [NoRuns EXCEPT ![BackendRun] = Some(NewEntry(<<"h", "i">>))]
    /\ InitStream /\ InitTool /\ InitManager(EffortConfig) /\ InitMore
    /\ InitCodexModels(EffortConfig.defaultModel, EffortConfig.defaultEffort)
    /\ \E p \in Adapters : InitBackendWith(p, TRUE, "key")

NextCalls ==
    \/ StreamRun
    \/ ResolveApiKey
    \/ \E ok \in BOOLEAN : StreamOpens(ok)
    \/ FirstNext
    \/ \E ev \in CallsCodexNative : CodexCall(ev)
    \/ \E ev \in CallsClaudeNative : ClaudeCall(ev)
    \/ \E payload \in CallsMistralNative, result \in ToolResults, ok \in BOOLEAN :
          MistralCall(payload, result, ok)
    \/ NativeEnds

SpecCalls == InitCalls /\ [][NextCalls]_vars

\* the process starts with any value of LUSKUI_BACKEND
InitProcess ==
    /\ InitRuns /\ InitStream /\ InitTool /\ InitManager(EffortConfig) /\ InitBackend
    /\ InitCodexModels(EffortConfig.defaultModel, EffortConfig.defaultEffort)
    /\ InitCallers /\ InitAuth /\ InitObserver /\ InitInstances
    /\ envBackend \in EnvValues
    /\ ppc = "boot"
    /\ backend = null
    /\ startError = null
    /\ envAtStart = null
    /\ served = null

NextProcess ==
    \/ Boot
    \/ \E v \in EnvValues : SetEnv(v)
    \/ \E kind \in RequestKinds : Serve(kind)

SpecProcess == InitProcess /\ [][NextProcess]_vars

\* the Run Store, its five operations called in any order for any run,
\* and streams of several runs open at once
InitStore == Init

NextStore ==
    \/ \E prompt \in Prompts : StoreCreate(prompt)
    \/ \E id \in RunIds : StoreSetLastDiff(id, <<"p">>)
    \/ \E id \in RunIds : StoreAppendCommandLog(id, <<"c">>)
    \/ \E id \in RunIds : StoreClearRun(id)
    \/ \E id \in RunIds : StoreStreamOpens(id)
    \/ \E id \in RunIds, event \in StoreEvents : StoreStreamEvent(id, event)
    \/ \E id \in RunIds : StoreStreamEnds(id)

SpecStore == InitStore /\ [][NextStore]_vars

\* two stream requests at a time, for runs that were created earlier
InitSessions ==
    /\ runs \in {[NoRuns EXCEPT !["r1"] = Some(NewEntry(<<"h", "i">>))],
                 [NoRuns EXCEPT !["r1"] = Some(NewEntry(<<"h", "i">>)),
                                !["r2"] = Some(NewEntry(<<"y", "o">>))]}
    /\ InitStream /\ InitTool /\ InitManager(EffortConfig)
    /\ InitCodexModels(EffortConfig.defaultModel, EffortConfig.defaultEffort)
    /\ InitBackend /\ InitMore

NextSessions ==
    \/ \E h \in SessionIds, id \in RunIds : SessionOpens(h, id)
    \/ \E h \in SessionIds, event \in StoreEvents : SessionEvent(h, event)
    \/ \E h \in SessionIds : SessionEnds(h)

SpecSessions == InitSessions /\ [][NextSessions]_vars

\* what callers pass through a Backend object
InstancePayloads ==
    {[model |-> Str(<<"a">>), effort |-> Missing, other |-> Missing],
     [model |-> [kind |-> "null", s |-> <<>>], effort |-> Missing, other |-> Missing],
     [model |-> Missing, effort |-> Str(High), other |-> Missing]}

NextInstances ==
    \/ \E i \in InstanceIds, p \in Adapters : CreateBackend(i, p)
    \/ \E i \in InstanceIds, payload \in InstancePayloads : UpdateVia(i, payload)
    \/ \E i \in InstanceIds, list \in {<<>>, <<<<"a">>>>} : FetchVia(i, list)

SpecInstances == Init /\ [][NextInstances]_vars

\* the environment holds an OAuth token, or none, and any cache TTL; or it
\* holds an API key
AuthEnvs ==
    {[apiKey |-> null, token |-> Some("t1"), ttl |-> ttl] : ttl \in TtlSettings}
    \cup {[apiKey |-> null, token |-> null, ttl |-> "unset"],
          [apiKey |-> Some(EnvKey), token |-> Some("t1"), ttl |-> "unset"]}

InitAuthSpec ==
    /\ InitRuns /\ InitStream /\ InitTool /\ InitManager(EffortConfig) /\ InitBackend
    /\ InitCodexModels(EffortConfig.defaultModel, EffortConfig.defaultEffort)
    /\ InitListening /\ InitCallers /\ InitObserver /\ InitInstances
    /\ \E env \in AuthEnvs : InitAuthWith(env)

NextAuth ==
    \/ \E c \in AuthCallers : ResolveClaudeApiKey(c)
    \/ \E k \in 1..MaxMints : MintResolves(k)
    \/ \E k \in 1..MaxMints : MintRejects(k)
    \/ \E k \in 1..MaxMints : MintFinally(k)
    \/ \E c \in AuthCallers : AuthResume(c)
    \/ \E c \in AuthCallers : AuthReturn(c)
    \/ \E t \in OauthTokens : SetToken(Some(t))
    \/ AgeTick

SpecAuth == InitAuthSpec /\ [][NextAuth]_vars

Next ==
    \/ NextStream \/ NextTool \/ NextCatalog \/ NextSelection \/ NextBackend
    \/ NextCalls
    \/ NextSessions
    \/ NextInstances
    \/ NextSettings
    \/ NextProcess \/ NextStore \/ NextAuth

Spec == Init /\ [][Next]_vars

-----------------------------------------------------------------------------
(* Properties of the Streaming Session Controller (SpecStream)              *)

\* the peer disconnected while the stream was open and the pump not over
Cancelled == disconnectedAt \in {"starting", "next"}

Terminals(fs) == {i \in 1..Len(fs) : IsTerminal(fs[i])}

\* the terminal frame the outcome of the pump calls for
TerminalFor(fail) == IF fail = null THEN DoneFrame ELSE ErrorFrame(fail[1])

\* C1: a stream of an existing run that no peer disconnect cancelled writes
\* exactly one terminal frame, as its last frame: `done` when the sequence
\* was exhausted, `error` with the failure's message when streamRun or the
\* pump failed; the transport is then closed, and nothing is written before
\* the stream is over that is terminal.
C1_OneTerminalFrame ==
    ~Cancelled =>
        /\ Cardinality(Terminals(frames)) <= 1
        /\ pc # "closed" => Terminals(frames) = {} /\ endCalls = 0
        /\ pc = "closed" =>
              /\ Terminals(frames) = {Len(frames)}
              /\ frames[Len(frames)] = TerminalFor(failure)
              /\ endCalls = 1

C1_Witness ==
    /\ pc = "closed"
    /\ ~clientClosed
    /\ failure # null
    /\ produced # <<>>
    /\ frames[Len(frames)].type = "error"

\* C2: for a stream that is not cancelled, the frames written are the events
\* the Backend sequence produced, one frame per event and in the same
\* order, followed (once the stream is over) by the terminal frame.
C2_FramesAreEvents ==
    ~Cancelled =>
        frames = produced \o (IF pc = "closed" THEN <<TerminalFor(failure)>> ELSE <<>>)

C2_Witness ==
    /\ pc = "closed"
    /\ ~clientClosed
    /\ failure = null
    /\ Len(produced) >= 2
    /\ produced[1] # produced[2]
    /\ \E i \in 1..Len(produced) : produced[i].type = "tool.end"

\* C3: once the peer has disconnected during an open stream, nothing more is
\* written to the transport for that stream.
C3_NoWriteAfterDisconnect == lateWrites = 0

\* C4 as stated: a peer disconnect while the pump is iterating a Backend
\* sequence that has not ended makes the sequence receive the release signal
\* exactly once.
C4_ReleasedExactlyOnce ==
    (pc = "closed" /\ disconnectedAt = "next") => returnCalls = 1

\* C4, amended: after such a disconnect the release signal is sent exactly
\* once when the pending streamRun / next() resolves (with an event or with
\* the end of the sequence), and not at all when it fails; it is never sent
\* more than once.
C4_ReleasedOnceUnlessFailed ==
    /\ returnCalls <= 1
    /\ (pc \in {"returning", "closed"} /\ Cancelled) =>
          returnCalls = (IF seqFailed THEN 0 ELSE 1)

C4_Witness ==
    /\ pc = "closed"
    /\ disconnectedAt = "next"
    /\ ~seqFailed
    /\ returnCalls = 1
    /\ produced # <<>>

\* the events the Controller has processed: every frame but the terminal one
Processed(fs) == SelectSeq(fs, LAMBDA f : ~IsTerminal(f))

\* C12: a stream opened for an identifier that is not in the Run Store is
\* answered with the failure response at once: no frame is written, no
\* Backend run is started (nothing is awaited, produced or released), and
\* the step that answers leaves the Run Store as it was.
C12_MissingRunRejected ==
    /\ []((pc # "idle" /\ runs[streamId] = <<>>) =>
              /\ pc = "notfound"
              /\ frames = <<>>
              /\ produced = <<>>
              /\ failure = null
              /\ endCalls = 0
              /\ returnCalls = 0)
    /\ [][(pc = "idle" /\ pc' # "idle" /\ runs[streamId'] = <<>>) =>
              (pc' = "notfound" /\ runs' = runs)]_vars
    /\ [][pc = "notfound" => pc' = "notfound"]_vars

C12_Witness ==
    /\ pc = "notfound"
    /\ runs[streamId] = <<>>
    /\ \E id \in RunIds : runs[id] # <<>>

DiffFrames(fs) == {i \in 1..Len(fs) : fs[i].type = "diff"}
LastOf(set) == CHOOSE i \in set : \A j \in set : j <= i

\* the patch of the most recent `diff` event processed for run `id`
LatestDiff(id) ==
    IF id = streamId /\ DiffFrames(frames) # {}
    THEN Some(frames[LastOf(DiffFrames(frames))].patch)
    ELSE null

\* C16 as stated: the last diff stored for a run, and returned by
\* GET /api/last-diff/:id, is the patch of the most recent `diff` event
\* processed for the run, and null if none was processed.
C16_LastDiffIsLatest ==
    \A id \in RunIds :
        /\ runs[id] # <<>> => runs[id][1].lastDiff = LatestDiff(id)
        /\ LastDiffResponse(runs, id).diff = LatestDiff(id)

\* C16, amended: the last diff stored for a run is the patch of the most
\* recent `diff` event processed for it (null if none was); GET
\* /api/last-diff/:id returns that patch, except that it returns null when
\* the patch is the empty string.
C16_LastDiffIsLatestNonEmpty ==
    \A id \in RunIds :
        /\ runs[id] # <<>> => runs[id][1].lastDiff = LatestDiff(id)
        /\ LastDiffResponse(runs, id).diff =
              (IF LatestDiff(id) # null /\ LatestDiff(id)[1] # <<>>
               THEN LatestDiff(id) ELSE null)

C16_Witness ==
    /\ Cardinality(DiffFrames(frames)) >= 2
    /\ frames[1].type = "diff"
    /\ frames[1].patch = <<>>
    /\ LastDiffResponse(runs, streamId).diff = Some(<<"p">>)

RECURSIVE Concat(_)
Concat(seqs) == IF seqs = <<>> THEN <<>> ELSE Head(seqs) \o Concat(Tail(seqs))

IsStartLine(line) == Len(line) >= 2 /\ SubSeq(line, 1, 2) = <<"$", " ">>

\* the lines of a transcript that are not start markers
OutputLines(lines) == SelectSeq(lines, LAMBDA l : ~IsStartLine(l))

\* the texts of the tool-output events of a sequence of events
OutputTextsOf(events) ==
    LET outs == SelectSeq(events, LAMBDA e : e.type \in {"tool.stdout", "tool.stderr"})
    IN  [i \in 1..Len(outs) |-> outs[i].text]

\* each text extends the one before it with new text
Cumulative(texts) ==
    \A i \in 1..(Len(texts) - 1) :
        IsPrefix(texts[i], texts[i + 1]) /\ Len(texts[i]) < Len(texts[i + 1])

\* C17 as stated: when the tool.stdout events of the Backend sequence carry
\* cumulative text, the transcript holds only the unseen suffixes: its
\* output lines, concatenated, are the last cumulative text, no byte twice.
C17_TranscriptHoldsSuffixes ==
    LET texts == OutputTextsOf(Processed(frames)) IN
    (texts # <<>> /\ Cumulative(texts)
                 /\ \A i \in 1..Len(frames) : frames[i].type # "tool.stderr") =>
        Concat(OutputLines(getCommands(runs, streamId))) = texts[Len(texts)]

\* C17, amended: the transcript holds, after the start marker, the text of
\* every tool-output event exactly as the Backend sequence carried it, in
\* order: chunks of unseen text ("ab" then "c") are recorded as such and no
\* byte appears twice, while cumulative text ("ab" then "abc") is recorded
\* as it came.
C17_TranscriptHoldsTexts ==
    pc # "idle" =>
        OutputLines(getCommands(runs, streamId)) = OutputTextsOf(Processed(frames))

C17_Witness ==
    /\ Len(frames) >= 3
    /\ frames[1].type = "tool.start"
    /\ getCommands(runs, streamId) =
          <<StartLine(frames[1].name), <<"a", "b">>, <<"c">>>>

RECURSIVE LinesOf(_)
\* one start-marker line per tool.start, one line per tool.stdout/stderr
LinesOf(events) ==
    IF events = <<>> THEN <<>>
    ELSE LET e == Head(events)
         IN  (CASE e.type = "tool.start" -> <<<<"$", " ">> \o e.name>>
                [] e.type \in {"tool.stdout", "tool.stderr"} -> <<e.text>>
                [] OTHER -> <<>>)
             \o LinesOf(Tail(events))

\* C18: the transcript of a run is, in order, one start-marker line per
\* tool.start and one line per tool.stdout / tool.stderr event processed for
\* it; other events add no line; and a step only ever appends to it.
C18_TranscriptIsToolLines ==
    /\ [](\A id \in RunIds :
              getCommands(runs, id) =
                  (IF id = streamId THEN LinesOf(Processed(frames)) ELSE <<>>))
    /\ [][\A id \in RunIds :
              IsPrefix(getCommands(runs, id), getCommands(runs', id))]_vars

C18_Witness ==
    /\ Len(frames) >= 3
    /\ \E i \in 1..Len(frames) : frames[i].type = "tool.end"
    /\ \E i \in 1..Len(frames) : frames[i].type = "tool.stderr"
    /\ Len(getCommands(runs, streamId)) = 2

-----------------------------------------------------------------------------
(* Properties of the Codex translator (SpecTool)                            *)

\* C5: while the updates of a call are prefix-stable, the tool.stdout chunks
\* emitted for the call, concatenated, are the cumulative text last received
\* for it: no byte is repeated and none is skipped.
C5_ChunksRebuildOutput ==
    \A id \in CallIds : prefixStable[id] => stdoutCat[id] = aggregated[id]

C5_Witness ==
    \E id \in CallIds :
        /\ prefixStable[id]
        /\ chunkCount[id] >= 2
        /\ Len(aggregated[id]) >= 2
        /\ commandOutputState[id] = <<>>

-----------------------------------------------------------------------------
(* Properties of the catalog cache (SpecCatalog)                            *)

Waiting == {c \in Callers : callers[c].pc = "waiting"}
Fetching == {k \in FetchIds : promises[k].stage = "fetching"}
ServedBy(k) == {c \in Callers : callers[c].pc = "done" /\ callers[c].p = k}

\* C6: calls made before any of them resolves share one fetch: they wait on
\* the same promise, no two fetches are ever in flight, and the calls one
\* fetch served all resolved to the same list.
C6_FetchCoalesced ==
    /\ Cardinality(Fetching) <= 1
    /\ \A c1, c2 \in Waiting : callers[c1].p = callers[c2].p
    /\ \A c \in Waiting :
          promises[callers[c].p].stage = "fetching" => callers[c].p = inflightFetch
    /\ \A k \in FetchIds : \A c1, c2 \in ServedBy(k) :
          /\ callers[c1].status = "fulfilled"
          /\ callers[c1].result[1].availableModels = callers[c2].result[1].availableModels

C6_Witness ==
    /\ fetchCount = 1
    /\ ServedBy(1) = Callers

\* C7: a call made while the cache is populated and now - fetchedAt < TTL
\* starts no fetch and resolves to the cached list.
C7_FreshCacheServes ==
    [][\A c \in Callers :
          ( /\ callers[c].pc = "idle"
            /\ callers'[c].pc # "idle"
            /\ cachedModels # null
            /\ now - cachedModels[1].fetchedAt < MODEL_CACHE_TTL_MS )
          => /\ fetchCount' = fetchCount
             /\ promises' = promises
             /\ callers'[c].pc = "done"
             /\ callers'[c].status = "fulfilled"
             /\ callers'[c].result[1].availableModels = cachedModels[1].list]_vars

C7_Witness ==
    /\ fetchCount = 1
    /\ now > 0
    /\ \E c \in Callers : callers[c].pc = "done" /\ callers[c].via = "cache"

\* the statically configured extra models
StaticExtras(cfg) ==
    IF cfg.configModels = null THEN {}
    ELSE {m \in Range(cfg.configModels[1]) : m # <<>>}

\* C8: a failed catalog fetch never reaches a caller: every call resolves,
\* and the fetch leaves in the cache, and gives its callers, exactly the
\* statically configured extra models (an empty list when there are none).
C8_FetchFailureAbsorbed ==
    /\ \A c \in Callers :
          callers[c].pc = "done" => callers[c].status = "fulfilled" /\ callers[c].result # null
    /\ \A k \in FetchIds : promises[k].failed =>
          /\ promises[k].status = "fulfilled"
          /\ Range(promises[k].value) = StaticExtras(config)
          /\ Len(promises[k].value) = Cardinality(StaticExtras(config))
          /\ k = fetchCount =>
                cachedModels # null /\ cachedModels[1].list = promises[k].value
          /\ \A c \in ServedBy(k) :
                callers[c].result[1].availableModels = promises[k].value

C8_Witness ==
    /\ StaticExtras(config) # {}
    /\ \E c \in Callers :
          /\ callers[c].pc = "done"
          /\ callers[c].p # 0
          /\ promises[callers[c].p].failed

-----------------------------------------------------------------------------
(* Properties of the active selection (SpecSelection)                       *)

\* C9 as stated: with effort support, an effort string that is not in the
\* allowed set (as the manager compares it: trimmed and lower-cased) leaves
\* the active effort as it was, and the empty string clears it.
C9_InvalidEffortKept ==
    (lastCall # null /\ config.supportsEffort /\ IsString(lastCall[1].effort)) =>
        LET e == lastCall[1].effort.s IN
        /\ e = <<>> => activeEffort = null
        /\ (e # <<>> /\ ToLowerCase(Trim(e)) \notin Range(EFFORT_OPTIONS)) =>
              activeEffort = prevSelection.effort

\* C9, amended: with effort support, an effort string whose trimmed,
\* lower-cased form is not empty and not in the allowed set leaves the active
\* effort as it was; one whose trimmed form is empty (the empty string, or
\* only whitespace) clears it to null.
C9_InvalidNormalizedEffortKept ==
    (lastCall # null /\ config.supportsEffort /\ IsString(lastCall[1].effort)) =>
        LET n == ToLowerCase(Trim(lastCall[1].effort.s)) IN
        /\ n = <<>> => activeEffort = null
        /\ (n # <<>> /\ n \notin Range(EFFORT_OPTIONS)) =>
              activeEffort = prevSelection.effort

C9_Witness ==
    /\ lastCall # null
    /\ config.supportsEffort
    /\ lastCall[1].effort = Str(<<"u", "l", "t", "r", "a">>)
    /\ prevSelection.effort = Some(High)
    /\ activeEffort = Some(High)

\* C10 as stated: a non-empty model string sets the active model to the
\* trimmed string, null or the empty string clears it, and a payload with no
\* model field leaves it unchanged.
C10_ModelStoredTrimmed ==
    lastCall # null =>
        LET v == lastCall[1].model IN
        /\ (IsString(v) /\ v.s # <<>>) => activeModel = Some(Trim(v.s))
        /\ (v.kind = "null" \/ (IsString(v) /\ v.s = <<>>)) => activeModel = null
        /\ ~HasField(v) => activeModel = prevSelection.model

\* C10, amended: a model string that is not empty once trimmed sets the
\* active model to the trimmed string, in the catalog or not; null, the empty
\* string or a string of only whitespace clears it to null; a payload with
\* no model field leaves it unchanged.
C10_NonBlankModelStoredTrimmed ==
    lastCall # null =>
        LET v == lastCall[1].model IN
        /\ (IsString(v) /\ Trim(v.s) # <<>>) => activeModel = Some(Trim(v.s))
        /\ (v.kind = "null" \/ (IsString(v) /\ Trim(v.s) = <<>>)) => activeModel = null
        /\ ~HasField(v) => activeModel = prevSelection.model

C10_Witness ==
    /\ lastCall # null
    /\ lastCall[1].model = Str(<<" ", "z", " ">>)
    /\ activeModel = Some(<<"z">>)
    /\ cachedModels # null
    /\ <<"z">> \notin Range(cachedModels[1].list)

\* a value of the wrong type for a selection field
Malformed(v) == v.kind \in {"number", "boolean", "object"}

C20_NonStringEffortClears ==
    (lastCall # null /\ config.supportsEffort
        /\ HasField(lastCall[1].effort) /\ ~IsString(lastCall[1].effort)) =>
            activeEffort = null

C20_Witness ==
    /\ lastCall # null
    /\ config.supportsEffort
    /\ lastCall[1].effort.kind = "object"
    /\ prevSelection.effort = Some(High)
    /\ activeEffort = null

-----------------------------------------------------------------------------
(* Properties of the adapters and their translators (SpecBackend)           *)

\* the configuration disables network access, or no credential resolves
Unavailable == ~networkAccessEnabled \/ credential # "key"

\* C11, as stated: with network access disabled or without a usable
\* credential, streamRun of every adapter (Codex, Claude, Mistral) fails
\* before any Normalized Event is produced: it never returns a sequence and
\* nothing is yielded.
C11_AdaptersRejectUnavailable ==
    (provider \in Adapters /\ Unavailable) =>
        /\ bpc \in {"idle", "resolving", "failed"}
        /\ ~yielded

\* C11, amended: the Claude and the Mistral adapter do so, and before any
\* request is sent to the provider; with network access disabled the
\* failure is the first thing streamRun does.  (The Codex adapter makes
\* neither check.)
C11_ClaudeMistralRejectUnavailable ==
    (provider \in {"claude", "mistral"} /\ Unavailable /\ bpc # "idle") =>
        /\ bpc \in {"resolving", "failed"}
        /\ ~yielded
        /\ opens = 0
        /\ bpc = "failed" =>
              thrown \in {Some(RequiresNetwork(provider)),
                          Some(MissingCredentials(provider)),
                          Some(ReAuthenticate(MintFailed))}
        /\ ~networkAccessEnabled =>
              bpc = "failed" /\ thrown = Some(RequiresNetwork(provider))

C11_Witness ==
    /\ provider = "claude"
    /\ networkAccessEnabled
    /\ credential = "none"
    /\ bpc = "failed"
    /\ thrown = Some(MissingCredentials("claude"))

\* the events by which a provider reports that the turn or the stream failed
IsFailureSignal(p, ev) ==
    \/ p = "codex" /\ ev.type \in {"turn.failed", "error"}
    \/ p = "claude" /\ ev.json /\ ev.event = "error"
    \/ p = "mistral" /\ ev.type = "conversation.response.error"

GenericMessage(p, ev) ==
    CASE p = "codex" -> (IF ev.type = "turn.failed" THEN <<"Codex turn failed">>
                         ELSE <<"Codex stream error">>)
      [] p = "claude" -> <<"Claude error">>
      [] OTHER -> <<"Mistral stream error">>

\* the message the signal carries: <<>> when it carries none
SignalMessage(p, ev) ==
    IF p = "mistral"
    THEN (IF ev.info # null /\ ev.info[1].text # <<>> THEN Some(ev.info[1].text)
          ELSE IF ev.content # null /\ ev.content[1].text # <<>> THEN Some(ev.content[1].text)
          ELSE null)
    ELSE (IF Truthy(ev.error.message) THEN ev.error.message ELSE null)

\* nothing more is yielded, and no stream is requested, once the sequence
\* has failed
FailureIsFinal ==
    [][thrown # null =>
          /\ bpc' = "failed" /\ thrown' = thrown
          /\ emitted' = emitted /\ yielded' = yielded /\ opens' = opens]_vars

\* C13, as stated: a turn-failed or top-level error signal makes the
\* adapter's sequence fail at that point with the message the signal carries,
\* and with a generic message only if it carries none; nothing is yielded
\* for the signal or after it, and no new provider stream is requested.
C13_FailsWithProviderMessage ==
    /\ [](lastSignal # null /\ provider \in Adapters
             /\ IsFailureSignal(provider, lastSignal[1]) =>
          /\ bpc = "failed"
          /\ emitted = <<>>
          /\ thrown = Some(IF SignalMessage(provider, lastSignal[1]) # null
                           THEN SignalMessage(provider, lastSignal[1])[1]
                           ELSE GenericMessage(provider, lastSignal[1])))
    /\ FailureIsFinal

\* C13, amended: the Codex and the Claude translator fail with the signal's
\* `error` when it is a string (as it is, even empty), else with its
\* error.message when that is not empty, else with the generic message; the
\* Mistral translator always fails with "Mistral stream error: " followed
\* by the signal's info, else its content, else the JSON text of the
\* payload.  Nothing is yielded for the signal or after it, and no new
\* provider stream is requested.
C13_FailsWithTranslatedMessage ==
    /\ [](lastSignal # null /\ provider \in Adapters
             /\ IsFailureSignal(provider, lastSignal[1]) =>
          LET ev == lastSignal[1] IN
          /\ bpc = "failed"
          /\ emitted = <<>>
          /\ thrown # null
          /\ provider \in {"codex", "claude"} =>
                /\ ev.error.kind = "string" => thrown[1] = ev.error.message[1]
                /\ ev.error.kind = "object" /\ Truthy(ev.error.message) =>
                      thrown[1] = ev.error.message[1]
                /\ ev.error.kind = "undefined"
                      \/ (ev.error.kind = "object" /\ ~Truthy(ev.error.message)) =>
                      thrown[1] = GenericMessage(provider, ev)
          /\ provider = "mistral" =>
                /\ SubSeq(thrown[1], 1, 2) = <<"Mistral stream error", ": ">>
                /\ SubSeq(thrown[1], 3, Len(thrown[1])) =
                      (IF ev.info # null THEN ev.info[1].text
                       ELSE IF ev.content # null THEN ev.content[1].text
                       ELSE PayloadJson))
    /\ FailureIsFinal

C13_Witness ==
    /\ provider = "codex"
    /\ lastSignal = Some([type |-> "turn.failed",
                          error |-> [kind |-> "object", message |-> Some(Boom)]])
    /\ bpc = "failed"
    /\ thrown = Some(Boom)
    /\ yielded

\* the types of the Normalized Events
NormalizedTypes ==
    {"thinking", "message", "status", "diff", "tool.start", "tool.stdout",
     "tool.stderr", "tool.end", "done", "error"}

\* C14: whatever the native events are, every event a translator hands to
\* the transport has a type of the Normalized Event vocabulary, and no native
\* event is handed on unchanged.
C14_OnlyNormalizedEvents ==
    /\ \A i \in 1..Len(emitted) : emitted[i].type \in NormalizedTypes
    /\ ~passedThrough

\* the same of the three adapters alone, without the translation server.ts
\* does itself
AdaptersOnlyNormalizedEvents == provider \in Adapters => C14_OnlyNormalizedEvents

-----------------------------------------------------------------------------
(* Properties of a turn's text (SpecTurn)                                   *)

\* where a fenced block with one of the labels opens in the text
BlockOpeners(text, labels) ==
    {i \in 1..(Len(text) - 2) :
        text[i] = Fence /\ text[i + 1] \in labels /\ text[i + 2] = "\n"}

\* the block opened at i is closed by a later fence
IsClosed(text, i) == \E j \in (i + 3)..Len(text) : text[j] = Fence

\* the body of the block opened at i: what lies between its opener and the
\* next fence
BodyAt(text, i) ==
    LET j == CHOOSE k \in (i + 3)..Len(text) :
                 text[k] = Fence /\ \A l \in (i + 3)..(k - 1) : text[l] # Fence
    IN  SubSeq(text, i + 3, j - 1)

TheOpener(text, labels) == CHOOSE i \in BlockOpeners(text, labels) : TRUE

DiffsOf(events) == SelectSeq(events, LAMBDA e : e.type = "diff")

\* the turn has just ended, for the first time
TurnJustEnded == turnClosed /\ turnEnds = 1

\* C15, as stated: when the text of a turn holds exactly one fenced block
\* labeled `diff`, the translator emits exactly one diff event for the
\* turn, whose patch is the block's body, trimmed.
C15_OneDiffBlockOneEvent ==
    (/\ TurnJustEnded
     /\ Cardinality(BlockOpeners(turnText, {"diff"})) = 1
     /\ IsClosed(turnText, TheOpener(turnText, {"diff"}))) =>
        DiffsOf(emitted) =
            <<[type |-> "diff",
               patch |-> Trim(BodyAt(turnText, TheOpener(turnText, {"diff"})))]>>

\* C15, amended: when the text of a turn holds exactly one fenced block
\* labeled `diff` or `patch`, and its body is not empty, the Claude and the
\* Mistral translator emit exactly one diff event at the end of the turn,
\* whose patch is the block's body without its trailing whitespace.
C15_OneBlockOneEvent ==
    (/\ TurnJustEnded
     /\ Cardinality(BlockOpeners(turnText, {"diff", "patch"})) = 1
     /\ IsClosed(turnText, TheOpener(turnText, {"diff", "patch"}))
     /\ BodyAt(turnText, TheOpener(turnText, {"diff", "patch"})) # <<>>) =>
        DiffsOf(emitted) =
            <<[type |-> "diff",
               patch |-> TrimEnd(BodyAt(turnText, TheOpener(turnText, {"diff", "patch"})))]>>

C15_Witness ==
    /\ provider = "mistral"
    /\ TurnJustEnded
    /\ turnText = <<Fence, "diff", "\n", "\n", "x", "\n", Fence>>
    /\ emitted = <<[type |-> "diff", patch |-> <<"\n", "x">>]>>

-----------------------------------------------------------------------------
(* Properties of the server process (SpecProcess)                           *)

-----------------------------------------------------------------------------
(* Properties of the Run Store (SpecStore)                                  *)

\* C22: runs own disjoint state: an operation of the Run Store, or an
\* activity of a stream, that names run A leaves what the readers give for
\* every other run B (prompt, last diff, command transcript) as it was.
C22_RunsAreDisjoint ==
    [][\A b \in RunIds :
          b # lastOp'.id => Observed(runs', b) = Observed(runs, b)]_vars

\* r1 is cleared while r2, which a stream has written to, keeps its last
\* diff and its transcript
C22_Witness ==
    /\ lastOp = [op |-> "clearRun", id |-> "r1"]
    /\ life["r1"] = "cleared"
    /\ getLastDiff(runs, "r2") = Some(<<"p">>)
    /\ Len(getCommands(runs, "r2")) = 2

\* the identifier was cleared, or never created
Absent(id) == life[id] \in {"never", "cleared"}

\* C23: for an identifier that was cleared or never created, getRun and
\* getLastDiff give null and getCommands the empty list, and setLastDiff
\* and appendCommandLog on it change nothing.
C23_AbsentRunIsInert ==
    /\ [](\A id \in RunIds :
            Absent(id) => /\ getRun(runs, id) = null
                          /\ getLastDiff(runs, id) = null
                          /\ getCommands(runs, id) = <<>>)
    /\ [][lastOp'.op \in {"setLastDiff", "appendCommandLog"} /\ Absent(lastOp'.id)
            => runs' = runs]_vars

\* appendCommandLog was called for r1 after r1 was cleared, while r2 is live
C23_Witness ==
    /\ lastOp = [op |-> "appendCommandLog", id |-> "r1"]
    /\ life = [r1 |-> "cleared", r2 |-> "live"]
    /\ getCommands(runs, "r2") # <<>>

-----------------------------------------------------------------------------
(* Properties of the Claude key resolution (SpecAuth)                       *)

\* caller c makes its call in this step
Calls(c) == authCalls[c].pc = "idle" /\ authCalls'[c].pc # "idle"

\* the environment holds an OAuth token and no API key
UsesOauth == authEnv.apiKey = null /\ authEnv.token # null

\* caller c makes its call in this step, with an OAuth token and no cached
\* key that can be reused
MintingCall(c) ==
    /\ Calls(c)
    /\ UsesOauth
    /\ ~shouldReuseCachedKey(cachedKey, authEnv.token[1], authEnv.ttl, now)

\* the callers whose call has not settled
Unsettled == {d \in AuthCallers : authCalls[d].pc = "waiting"}

\* C24: when several resolveClaudeApiKey calls are made with an OAuth token
\* and no reusable cached key before any of them settles, exactly one
\* minting request is sent (by the first; the others wait for the same
\* request), and the calls settle alike: with the key of that request.
C24_ConcurrentCallsShareOneMint ==
    /\ [][\A c \in AuthCallers :
            MintingCall(c) =>
               IF Unsettled = {}
               THEN Len(mints') = Len(mints) + 1 /\ authCalls'[c].mint = Len(mints')
               ELSE /\ Len(mints') = Len(mints)
                    /\ \A d \in Unsettled : authCalls'[c].mint = authCalls[d].mint]_vars
    /\ [](\A c \in AuthCallers :
            authCalls[c].pc = "done" /\ authCalls[c].mint # 0 =>
               /\ authCalls[c].out[1].kind = "key"
                     => authCalls[c].out[1].key = KeyOf(authCalls[c].mint)
               /\ \A d \in AuthCallers :
                     authCalls[d].pc = "done" /\ authCalls[d].mint = authCalls[c].mint
                        => authCalls[d].out = authCalls[c].out)

\* two calls were made before either settled; one request was sent, and
\* both resolved to its key
C24_Witness ==
    /\ Len(mints) = 1
    /\ authCalls["a"] = [pc |-> "done", how |-> "minted", mint |-> 1,
                         token |-> Some("t1"),
                         out |-> Some([kind |-> "key", key |-> KeyOf(1)])]
    /\ authCalls["b"] = [authCalls["a"] EXCEPT !.how = "joined"]

\* C25: once a minting request has settled, succeeded or failed, the
\* in-flight marker is cleared; a failure is never cached (the cached key is
\* the key of a request that succeeded, and a failing request leaves the
\* cache as it was); the next call after a failed request sends a new
\* request and waits for that one.
C25_FailureNotCached ==
    /\ [](AuthIdle /\ inflightRequest # 0 => mints[inflightRequest].status = "pending")
    /\ [](cachedKey # null =>
            \E k \in 1..Len(mints) :
               mints[k].status = "resolved" /\ cachedKey[1].apiKey = KeyOf(k))
    /\ [][\A k \in 1..Len(mints) :
            mints[k].status = "pending" /\ mints'[k].status = "rejected"
               => cachedKey' = cachedKey]_vars
    /\ [][\A c \in AuthCallers :
            MintingCall(c) /\ mints # <<>> /\ mints[Len(mints)].status = "rejected"
               => Len(mints') = Len(mints) + 1 /\ authCalls'[c].mint = Len(mints')]_vars

\* the first request failed and its caller got the error; the next call sent
\* a second request and resolved to its key
C25_Witness ==
    /\ Len(mints) = 2
    /\ mints[1].status = "rejected"
    /\ authCalls["a"].pc = "done"
    /\ authCalls["a"].how = "minted"
    /\ authCalls["a"].out = Some([kind |-> "key", key |-> KeyOf(2)])

\* the cached key was minted with this token and is younger than a finite,
\* positive TTL
Reusable(token) ==
    /\ cachedKey # null
    /\ cachedKey[1].oauthToken = token
    /\ authEnv.ttl \in {"unset", "1"}
    /\ now - cachedKey[1].fetchedAt <
          (IF authEnv.ttl = "unset" THEN CLAUDE_OAUTH_CACHE_MS ELSE 1)

\* C26: a minted key is given to a call without a new minting request only
\* while the OAuth token is the one it was minted with and its age is below
\* a finite, positive TTL; when the TTL has elapsed, the token has changed,
\* or the TTL is non-numeric, zero or negative, the call is not given the
\* cached key: the key it gets is minted with the call's token.
C26_KeyReusedOnlyWhileValid ==
    [][\A c \in AuthCallers :
          Calls(c) /\ UsesOauth =>
             /\ authCalls'[c].how = "cached" => Reusable(authEnv.token[1])
             /\ ~Reusable(authEnv.token[1]) =>
                   /\ authCalls'[c].how \in {"minted", "joined"}
                   /\ mints'[authCalls'[c].mint].token = authEnv.token[1]]_vars

\* as C26, for the calls that find no minting request in flight
CachedKeyReusedOnlyWhileValid ==
    [][\A c \in AuthCallers :
          Calls(c) /\ UsesOauth /\ inflightRequest = 0 =>
             /\ authCalls'[c].how = "cached" => Reusable(authEnv.token[1])
             /\ ~Reusable(authEnv.token[1]) =>
                   /\ authCalls'[c].how = "minted"
                   /\ Len(mints') = Len(mints) + 1
                   /\ mints'[authCalls'[c].mint].token = authEnv.token[1]]_vars

-----------------------------------------------------------------------------
(* Tool output state                                                        *)

\* the per-call state of an open call, CallIds being every id a call can have
IsOpen(id) == commandOutputState[id] # <<>>

\* C29 as stated: for every open call, bytesFlushed never decreases and never
\* exceeds the length of the aggregated output most recently received for it.
C29_FlushedWithinLatestOutput ==
    /\ [](\A id \in CallIds :
            IsOpen(id) => commandOutputState[id][1].flushed <= lastLength[id])
    /\ [][\A id \in CallIds :
            IsOpen(id) /\ IsOpen(id)'
                => commandOutputState'[id][1].flushed >= commandOutputState[id][1].flushed]_vars

\* C29, amended: for every open call, bytesFlushed never decreases and never
\* exceeds the length of the longest aggregated output received so far for it.
C29_FlushedWithinLongestOutput ==
    /\ [](\A id \in CallIds :
            IsOpen(id) => commandOutputState[id][1].flushed <= longest[id])
    /\ [][\A id \in CallIds :
            IsOpen(id) /\ IsOpen(id)'
                => commandOutputState'[id][1].flushed >= commandOutputState[id][1].flushed]_vars

\* an open call whose latest aggregated output is shorter than an earlier one
C29_Witness ==
    \E id \in CallIds :
        /\ IsOpen(id)
        /\ lastLength[id] < longest[id]
        /\ commandOutputState[id][1].flushed = longest[id]
-----------------------------------------------------------------------------
(* Tool calls and patches of a run                                          *)

\* C27 as stated: within one turn, no patch is reported by more than one
\* `diff` event, whatever native events carry it.
C27_EachPatchReportedOnce == \A r \in reports : r.times = 1

\* C28 as stated: for every call, the events emitted for it are tool.start
\* once, then output events, then tool.end once: no tool.end without an
\* earlier tool.start, and nothing after the tool.end.
C28_ToolEventsInOrder == \A e \in callLog : e.fault = "none"

-----------------------------------------------------------------------------
(* Client-executed tools of the multi-turn translator                       *)

MissingConversationId == <<"Missing conversation id for tool response">>

\* the step in which the Mistral translator runs a client tool: the only
\* step that emits a tool.start and a tool.end together
RunsTool ==
    /\ provider = "mistral"
    /\ bpc = "streaming"
    /\ \E i \in 1..Len(emitted') : emitted'[i].type = "tool.start"
    /\ \E i \in 1..Len(emitted') : emitted'[i].type = "tool.end"

\* tool.start first, tool.end last, only output events between them
StartOutputEnd(events) ==
    /\ Len(events) >= 2
    /\ events[1].type = "tool.start"
    /\ events[Len(events)].type = "tool.end"
    /\ \A i \in 2..(Len(events) - 1) : events[i].type \in {"tool.stdout", "tool.stderr"}
    /\ \A i, j \in 2..(Len(events) - 1) :
          events[i].type = "tool.stdout" /\ events[j].type = "tool.stderr" => i < j

\* C31 as stated: when a function call's arguments are complete the tool is
\* run once for the call, tool.start, output and tool.end are emitted in that
\* order, the result is resubmitted on the conversation, and the translator
\* goes on with the sequence the resubmission returned.
C31_ToolRunOnceAndResubmitted ==
    /\ [](provider = "mistral" =>
            \A e \in callLog : IsFunctionKey(e.call) => e.fault = "none")
    /\ [][RunsTool =>
            /\ StartOutputEnd(emitted')
            /\ conversationId # null
            /\ thrown' # Some(MissingConversationId)
            /\ bpc' = "streaming" => opens' = opens + 1]_vars

\* C40 as stated: without a conversation identifier the run fails with the
\* missing-conversation-id error before the tool is run and before any
\* tool.start or tool.end of the call is emitted.
C40_NoToolRunWithoutConversation ==
    [][/\ ~(RunsTool /\ conversationId = null)
       /\ thrown' = Some(MissingConversationId) /\ thrown = null
            => \A i \in 1..Len(emitted') : emitted'[i].type \notin ToolEventTypes]_vars

-----------------------------------------------------------------------------
(* What a stream records in the Run Store                                   *)

\* what is replayable of a run outside its stream
Recorded(rs, id) == [lastDiff |-> getLastDiff(rs, id), commands |-> getCommands(rs, id)]

\* C33: a run's last diff and command transcript change only in a step in
\* which the stream open for that run processes an event of its Backend, and
\* never once the disconnect has been observed or the transport is closed:
\* an event the Backend returns after the disconnect is not recorded.
C33_RecordedOnlyWhileStreamOpen ==
    [][\A id \in RunIds :
          Recorded(runs', id) # Recorded(runs, id) =>
              /\ streamId = id
              /\ pc = "next" /\ pc' = "next"
              /\ ~clientClosed
              /\ endCalls = 0
              /\ Len(produced') = Len(produced) + 1
              /\ runs' = handleBackendEvent(runs, id, produced'[Len(produced')]).runs]_vars

\* the Backend has returned a diff after the disconnect, and the run has none
C33_Witness ==
    /\ pc = "closed"
    /\ disconnectedAt = "next"
    /\ returnCalls = 1
    /\ produced # <<>>
    /\ produced[Len(produced)].type = "diff"
    /\ getLastDiff(runs, streamId) = null

-----------------------------------------------------------------------------
(* Cancellation of a stream whose Backend is live                           *)

\* the peer has gone while the handler awaits streamRun or next()
CancelPending == clientClosed /\ pc \in {"starting", "next"}

\* C32 as stated: after the peer disconnects during an open stream the
\* Controller eventually stops pumping, signals the Backend sequence to
\* release its resources, and closes the transport.
C32_DisconnectStopsReleasesCloses ==
    CancelPending ~> (pc = "closed" /\ endCalls = 1 /\ returnCalls = 1)

\* C32, amended: once the call the Controller awaits has settled, the
\* Controller stops pumping and closes the transport, and it has signalled
\* the Backend sequence to release its resources unless that call failed.
C32_DisconnectStopsAndCloses ==
    CancelPending ~>
        (pc = "closed" /\ endCalls = 1 /\ returnCalls = (IF seqFailed THEN 0 ELSE 1))

\* the peer went while the pump awaited next(); the pump has stopped, the
\* release signal was sent and the transport is closed
C32_Witness ==
    /\ disconnectedAt = "next"
    /\ pc = "closed"
    /\ endCalls = 1
    /\ returnCalls = 1
    /\ ~seqFailed
    /\ failure = null

-----------------------------------------------------------------------------
(* Several streams of one run                                               *)

-----------------------------------------------------------------------------
(* Malformed native events                                                  *)

\* what a translator carries from one native event to the next
TranslatorState ==
    <<commandOutputState, messageBuffer, toolState, functionState, conversationId>>

\* the step in which a translator consumes a malformed native event (the
\* step that ends the native sequence is the only other one of a running
\* translator)
ConsumesMalformed == bpc = "streaming" /\ bpc' # "ended" /\ skipped'

\* the step consumed a native event as if it had not been there
Skipped ==
    /\ emitted' = <<>>
    /\ bpc' = bpc
    /\ thrown' = thrown
    /\ TranslatorState' = TranslatorState

\* C34 as stated: a malformed native event is skipped on its own: nothing is
\* emitted for it, the sequence does not fail, and the translator's state is
\* what it was, so the events around it are translated as without it.
C34_MalformedEventSkipped == [][ConsumesMalformed => Skipped]_vars

\* the same for the events whose data does not parse or that miss their
\* type or item, leaving out the data that parses to null
UnparseableEventSkipped ==
    [][ConsumesMalformed /\ thrown' # Some(NullRead(<<"index">>)) => Skipped]_vars

-----------------------------------------------------------------------------
(* The Codex adapter's model module and the shared Model Manager            *)

\* C36 as stated: given the same payloads from the same starting selection,
\* the Codex adapter's module and a manager with effort support hold the
\* same active model and the same active effort.
C36_SameSelectionInBoth ==
    config.supportsEffort =>
        /\ activeModel = codexSelection.model
        /\ activeEffort = codexSelection.effort

\* the two agree on the active model
SameActiveModelInBoth == config.supportsEffort => activeModel = codexSelection.model

-----------------------------------------------------------------------------
(* Backend objects                                                          *)

\* C35 as stated: a call made through one Backend object never changes the
\* model, the effort or the cached catalog observed through another one.
C35_StatePerBackendInstance ==
    [][\A j \in InstanceIds :
          instances[j] # null /\ j # lastVia' =>
              SeenThrough(instances', modules', j) = SeenThrough(instances, modules, j)]_vars

\* C35 as it holds: a call made through one Backend object never changes the
\* model, the effort or the cached catalog observed through a Backend object
\* of another adapter.
C35_StatePerAdapter ==
    [][\A j \in InstanceIds :
          /\ instances[j] # null
          /\ lastVia' \in InstanceIds
          /\ instances[lastVia'] # instances[j]
          => SeenThrough(instances', modules', j) = SeenThrough(instances, modules, j)]_vars

\* a call through one Backend object has changed its module's state while a
\* Backend object of another adapter exists
C35_Witness ==
    /\ lastVia \in InstanceIds
    /\ modules[instances[lastVia][1]] # ModuleLoaded(instances[lastVia][1])
    /\ \E j \in InstanceIds : instances[j] # null /\ instances[j] # instances[lastVia]

-----------------------------------------------------------------------------
(* The catalog cache after a failure                                        *)

\* the fetch `k` has failed, or has come back with no models
FailedOrEmpty(proms, k) ==
    /\ proms[k].stage \in {"cached", "settled"}
    /\ proms[k].failed \/ proms[k].value = mergeWithConfigModels(config, <<>>)

\* a getModelSettings call is made in this step
CallMade(c) == callers[c].pc = "idle" /\ callers'[c].pc # "idle"

\* C37: a failed or empty catalog fetch is cached like a successful one, with
\* the time of the failure; after it no new fetch is started until the TTL has
\* elapsed since the failure, and the first call after that starts exactly one
\* new fetch.
C37_FailureCachedForTtl ==
    [][ /\ \A k \in FetchIds :
             (promises[k].stage = "fetching" /\ FailedOrEmpty(promises', k)) =>
                 cachedModels' = Some([list |-> mergeWithConfigModels(config, <<>>),
                                       fetchedAt |-> now])
        /\ ( /\ fetchCount > 0
             /\ FailedOrEmpty(promises, fetchCount)
             /\ cachedModels # null
             /\ now - cachedModels[1].fetchedAt < MODEL_CACHE_TTL_MS )
           => fetchCount' = fetchCount
        /\ \A c \in Callers :
             ( /\ CallMade(c)
               /\ fetchCount > 0
               /\ promises[fetchCount].stage = "settled"
               /\ FailedOrEmpty(promises, fetchCount)
               /\ now - cachedModels[1].fetchedAt >= MODEL_CACHE_TTL_MS )
             => /\ fetchCount' = fetchCount + 1
                /\ inflightFetch' = fetchCount'
                /\ promises'[fetchCount'].stage = "fetching"
                /\ callers'[c].pc = "waiting" /\ callers'[c].p = fetchCount' ]_vars

\* a fetch failed or came back empty, a call was served from what it cached,
\* and a call made after the TTL has started the next fetch
C37_Witness ==
    /\ fetchCount = 2
    /\ FailedOrEmpty(promises, 1)
    /\ promises[1].stage = "settled"
    /\ inflightFetch = 2

-----------------------------------------------------------------------------
(* The settings a call reports                                              *)

\* the call of `c` resolves in this step
Resolves(c) == callers[c].pc # "done" /\ callers'[c].pc = "done"

\* every call reports the selection in force when the catalog becomes
\* available to it
ReportsSelectionInForce ==
    \A c \in Callers :
        Resolves(c) => /\ callers'[c].result[1].model = activeModel'
                       /\ callers'[c].result[1].effort = activeEffort'

\* the response to a POST reports the selection its own update left
ReflectsOwnUpdate(c) ==
    /\ callers[c].result[1].model = applied[c][1].model
    /\ callers[c].result[1].effort = applied[c][1].effort

\* C38 as stated: getModelSettings reports the selection in force when the
\* catalog becomes available, so an update applied while a fetch is in flight
\* is in the result of every call waiting on it, and the response to POST
\* /api/model always reflects the update it has just applied.
C38_PostReflectsOwnUpdate ==
    /\ [][ReportsSelectionInForce]_vars
    /\ [](\A c \in Callers :
            (callers[c].pc = "done" /\ applied[c] # null) => ReflectsOwnUpdate(c))

\* C38 as it holds: the same, and the response to POST /api/model reflects the
\* update it has just applied unless another update was applied while it
\* waited for the catalog.
C38_PostReflectsLatestUpdate ==
    /\ [][ReportsSelectionInForce]_vars
    /\ [](\A c \in Callers :
            (callers[c].pc = "done" /\ applied[c] # null /\ ~applied[c][1].later)
            => ReflectsOwnUpdate(c))

\* a POST that waited for a fetch has answered with its own update, which
\* changed the model
C38_Witness ==
    \E c \in Callers :
        /\ callers[c].pc = "done" /\ callers[c].via = "fetch"
        /\ applied[c] # null /\ ~applied[c][1].later
        /\ callers[c].result[1].model # config.defaultModel
====
